---- MODULE Spec2Model ----
(***************************************************************************)
(* Model of ankerutil-node: the envelope cipher with its key-version       *)
(* registry (class Encryption, and its older lineage class SensitiveData). *)
(*                                                                         *)
(* Strings are sequences of UTF-16 code units (naturals), byte buffers are *)
(* sequences of 0..255.  The primitives of Node's crypto module are not    *)
(* repository code; they are modelled by their contracts:                  *)
(*   - createHash('sha256'): a function of the bytes that is collision     *)
(*     free on inputs shorter than 32 bytes, with a 32-byte result;        *)
(*   - createCipheriv/createDecipheriv('aes-128-cbc'): a keyed invertible  *)
(*     CBC transformation on 16-byte blocks with PKCS#7 padding which      *)
(*     throws on a key that is not 16 bytes, an IV that is not 16 bytes,   *)
(*     a body that is not a positive multiple of 16 bytes, bad padding;    *)
(*   - randomBytes: a nondeterministic choice among RandomFills.           *)
(* Hex, base64 and UTF-8 conversions are computed as Buffer computes them. *)
(***************************************************************************)
EXTENDS Integers, Sequences, FiniteSets, TLC

\* ------------------------------------------------------------------------
\* Code units and small helpers
\* ------------------------------------------------------------------------
Caret == 94

\* The sequence of n elements c.
RECURSIVE Rep(_, _)
Rep(c, n) == IF n = 0 THEN <<>> ELSE Append(Rep(c, n - 1), c)

Min(a, b) == IF a < b THEN a ELSE b

\* The element of a one-element set.  The({e : x \in {v}}) is e with x bound
\* to the value of v: v is computed once, however often e reads x.
The(S) == CHOOSE x \in S : TRUE

\* Concatenation of piece(lo), ..., piece(hi), by halves.
RECURSIVE ConcatRange(_, _, _)
ConcatRange(piece(_), lo, hi) ==
  IF lo > hi THEN <<>>
  ELSE IF lo = hi THEN piece(lo)
  ELSE LET mid == (lo + hi) \div 2
       IN ConcatRange(piece, lo, mid) \o ConcatRange(piece, mid + 1, hi)

\* String.prototype.split('^'): the fields between the separators; a string
\* with n separators always gives n+1 fields (possibly empty ones).
Split(s) ==
  LET P == {i \in 1..Len(s) : s[i] = Caret}
      n == Cardinality(P)
      pos(k) == IF k = 0 THEN 0
                ELSE IF k = n + 1 THEN Len(s) + 1
                ELSE CHOOSE p \in P : Cardinality({q \in P : q < p}) = k - 1
  IN [k \in 1..(n + 1) |-> SubSeq(s, pos(k - 1) + 1, pos(k) - 1)]

\* Template literal `${a}^${b}^...`: the fields joined by '^'.
RECURSIVE Join(_)
Join(fs) ==
  IF Len(fs) = 0 THEN <<>>
  ELSE IF Len(fs) = 1 THEN fs[1]
  ELSE fs[1] \o <<Caret>> \o Join(Tail(fs))

\* Lexicographic order of strings by code unit (Array.prototype.sort default).
RECURSIVE StrLess(_, _)
StrLess(a, b) ==
  IF b = <<>> THEN FALSE
  ELSE IF a = <<>> THEN TRUE
  ELSE IF Head(a) # Head(b) THEN Head(a) < Head(b)
  ELSE StrLess(Tail(a), Tail(b))

\* versions[versions.length - 1] of the sorted key list.
GreatestOf(S) == CHOOSE v \in S : \A w \in S : w = v \/ StrLess(w, v)

\* ------------------------------------------------------------------------
\* Hex (Buffer.from(s, 'hex'), digest('hex'), toString('hex'))
\* ------------------------------------------------------------------------
IsHexDigit(c) == (c >= 48 /\ c <= 57) \/ (c >= 97 /\ c <= 102) \/ (c >= 65 /\ c <= 70)

HexVal(c) == IF c <= 57 THEN c - 48 ELSE IF c >= 97 THEN c - 87 ELSE c - 55

HexChar(v) == IF v < 10 THEN 48 + v ELSE 87 + v

\* A decoder that takes every pair of characters for a byte.
HexPairs_Lenient(s) == Len(s) \div 2

\* Number of leading pairs of hex digits: decoding stops at the first pair
\* that is not hexadecimal, and an odd trailing character is dropped.
HexPairs(s) ==
  LET n == Len(s) \div 2
      bad == {i \in 1..n : ~(IsHexDigit(s[2 * i - 1]) /\ IsHexDigit(s[2 * i]))}
  IN IF bad = {} THEN n ELSE (CHOOSE i \in bad : \A j \in bad : i <= j) - 1

HexDecode(s) ==
  [i \in 1..HexPairs(s) |-> 16 * HexVal(s[2 * i - 1]) + HexVal(s[2 * i])]

HexEncode(bs) ==
  [i \in 1..(2 * Len(bs)) |->
     IF i % 2 = 1 THEN HexChar(bs[(i + 1) \div 2] \div 16)
     ELSE HexChar(bs[i \div 2] % 16)]

\* ------------------------------------------------------------------------
\* Base64 (toString('base64'), Buffer.from(s, 'base64'))
\* ------------------------------------------------------------------------
B64Char(v) ==
  IF v < 26 THEN 65 + v
  ELSE IF v < 52 THEN 97 + (v - 26)
  ELSE IF v < 62 THEN 48 + (v - 52)
  ELSE IF v = 62 THEN 43 ELSE 47

\* -1 for a character outside the alphabet; '-' and '_' are accepted too.
B64Val(c) ==
  IF c >= 65 /\ c <= 90 THEN c - 65
  ELSE IF c >= 97 /\ c <= 122 THEN c - 97 + 26
  ELSE IF c >= 48 /\ c <= 57 THEN c - 48 + 52
  ELSE IF c = 43 \/ c = 45 THEN 62
  ELSE IF c = 47 \/ c = 95 THEN 63
  ELSE 0 - 1

ByteAt(bs, i) == IF i <= Len(bs) THEN bs[i] ELSE 0

Base64Encode(bs) ==
  LET n == Len(bs)
      groups == (n + 2) \div 3
      sextet(g, k) ==
        LET b1 == ByteAt(bs, 3 * g - 2)
            b2 == ByteAt(bs, 3 * g - 1)
            b3 == ByteAt(bs, 3 * g)
        IN  IF k = 1 THEN b1 \div 4
            ELSE IF k = 2 THEN (b1 % 4) * 16 + b2 \div 16
            ELSE IF k = 3 THEN (b2 % 16) * 4 + b3 \div 64
            ELSE b3 % 64
  IN [i \in 1..(4 * groups) |->
        LET g == (i + 3) \div 4
            k == i - 4 * (g - 1)
        IN  IF (k = 3 /\ 3 * g - 1 > n) \/ (k = 4 /\ 3 * g > n) THEN 61
            ELSE B64Char(sextet(g, k))]

\* The sextets of the input up to the first '=', characters outside the
\* alphabet skipped.
B64Sextets(s) ==
  LET pads == {i \in 1..Len(s) : s[i] = 61}
      last == IF pads = {} THEN Len(s)
              ELSE (CHOOSE i \in pads : \A j \in pads : i <= j) - 1
      piece(i) == IF B64Val(s[i]) < 0 THEN <<>> ELSE <<B64Val(s[i])>>
  IN ConcatRange(piece, 1, last)

Base64Decode(s) ==
  LET sx == B64Sextets(s)
      m == Len(sx)
      n == 3 * (m \div 4) + (IF m % 4 >= 2 THEN (m % 4) - 1 ELSE 0)
  IN [i \in 1..n |->
        LET g == (i + 2) \div 3
            k == i - 3 * (g - 1)
            s1 == sx[4 * g - 3]
            s2 == sx[4 * g - 2]
            s3 == IF 4 * g - 1 <= m THEN sx[4 * g - 1] ELSE 0
            s4 == IF 4 * g <= m THEN sx[4 * g] ELSE 0
        IN  IF k = 1 THEN s1 * 4 + s2 \div 16
            ELSE IF k = 2 THEN (s2 % 16) * 16 + s3 \div 4
            ELSE (s3 % 4) * 64 + s4]

\* ------------------------------------------------------------------------
\* UTF-8 (Buffer.from(s, 'utf8'), hash.update(s, 'utf8'), toString('utf8'))
\* ------------------------------------------------------------------------
IsHighSurrogate(c) == c >= 55296 /\ c <= 56319
IsLowSurrogate(c) == c >= 56320 /\ c <= 57343

\* The bytes of the code unit at position i: a surrogate pair gives four
\* bytes at its first unit and none at its second; U+FFFD replaces an
\* unpaired surrogate.
Utf8Unit(s, i) ==
  LET c == s[i] IN
  IF c < 128 THEN <<c>>
  ELSE IF c < 2048 THEN <<192 + c \div 64, 128 + (c % 64)>>
  ELSE IF IsHighSurrogate(c) /\ i < Len(s) /\ IsLowSurrogate(s[i + 1]) THEN
    LET cp == 65536 + (c - 55296) * 1024 + (s[i + 1] - 56320)
    IN <<240 + cp \div 262144, 128 + ((cp \div 4096) % 64),
         128 + ((cp \div 64) % 64), 128 + (cp % 64)>>
  ELSE IF IsLowSurrogate(c) /\ i > 1 /\ IsHighSurrogate(s[i - 1]) THEN <<>>
  ELSE IF IsHighSurrogate(c) \/ IsLowSurrogate(c) THEN <<239, 191, 189>>
  ELSE <<224 + c \div 4096, 128 + ((c \div 64) % 64), 128 + (c % 64)>>

Utf8Encode(s) == LET piece(i) == Utf8Unit(s, i) IN ConcatRange(piece, 1, Len(s))

IsCont(bs, i) == i <= Len(bs) /\ bs[i] >= 128 /\ bs[i] <= 191

\* Range of the second byte of a multi-byte sequence with lead byte b.
SecondOk(b, c) ==
  IF b = 224 THEN c >= 160 /\ c <= 191
  ELSE IF b = 237 THEN c >= 128 /\ c <= 159
  ELSE IF b = 240 THEN c >= 144 /\ c <= 191
  ELSE IF b = 244 THEN c >= 128 /\ c <= 143
  ELSE c >= 128 /\ c <= 191

\* Number of continuation bytes that lead byte b announces; -1 for a byte
\* that cannot start a sequence.
Utf8Need(b) ==
  IF b < 128 THEN 0
  ELSE IF b >= 194 /\ b <= 223 THEN 1
  ELSE IF b >= 224 /\ b <= 239 THEN 2
  ELSE IF b >= 240 /\ b <= 244 THEN 3
  ELSE 0 - 1

\* The m bytes after the lead byte at j continue its sequence.
Utf8PrefixOk(bs, j, m) ==
  /\ m >= 1 => (j + 1 <= Len(bs) /\ SecondOk(bs[j], bs[j + 1]))
  /\ m >= 2 => IsCont(bs, j + 2)
  /\ m >= 3 => IsCont(bs, j + 3)

\* The code units that the byte at position i contributes.  Bytes that do
\* not form a well-formed sequence decode to U+FFFD, one per maximal
\* ill-formed prefix; a continuation byte taken by the sequence of a lead
\* byte before it contributes nothing.
Utf8Piece(bs, i) ==
  LET b == bs[i]
      need == Utf8Need(b)
      taken == \E j \in 1..(i - 1) :
                 /\ i - j <= 3
                 /\ Utf8Need(bs[j]) >= i - j
                 /\ Utf8PrefixOk(bs, j, i - j)
  IN
  IF need = 0 THEN <<b>>
  ELSE IF need < 0 THEN (IF IsCont(bs, i) /\ taken THEN <<>> ELSE <<65533>>)
  ELSE IF ~Utf8PrefixOk(bs, i, need) THEN <<65533>>
  ELSE IF need = 1 THEN <<(b - 192) * 64 + (bs[i + 1] - 128)>>
  ELSE IF need = 2 THEN
    <<(b - 224) * 4096 + (bs[i + 1] - 128) * 64 + (bs[i + 2] - 128)>>
  ELSE LET cp == (b - 240) * 262144 + (bs[i + 1] - 128) * 4096
                   + (bs[i + 2] - 128) * 64 + (bs[i + 3] - 128)
       IN <<55296 + (cp - 65536) \div 1024, 56320 + ((cp - 65536) % 1024)>>

Utf8Decode(bs) == LET piece(i) == Utf8Piece(bs, i) IN ConcatRange(piece, 1, Len(bs))

\* ------------------------------------------------------------------------
\* JavaScript values and outcomes of a call
\* ------------------------------------------------------------------------
Null == [t |-> "null", s |-> <<>>]
Undefined == [t |-> "undefined", s |-> <<>>]
Str(s) == [t |-> "string", s |-> s]

\* !x for a value that is null, undefined or a string.
Falsy(x) == x.t # "string" \/ x.s = <<>>

Ok(v) == [ok |-> TRUE, v |-> v, err |-> <<>>]
Throw(msg) == [ok |-> FALSE, v |-> Undefined, err |-> <<msg>>]

\* catch (error) { throw new Error(`<prefix>: ${error.message}`) }
Rethrow(prefix, r) == [ok |-> FALSE, v |-> Undefined, err |-> <<prefix>> \o r.err]

\* ------------------------------------------------------------------------
\* Constants of the classes (CONSTANTS of Encryption and of SensitiveData)
\* ------------------------------------------------------------------------
SENSITIVE_DATA_KEY_LEN == 64
SENSITIVE_ROOT_KEY_LEN == 32
SENSITIVE_ROOT_KEY_VERSION_LEN == 4
DEFAULT_ROOT_KEY_VERSION == <<48, 48, 48, 49>>
NEW_CIPHERTEXT_SPLIT_LEN == 4
OLD_CIPHERTEXT_SPLIT_LEN == 2
AES_BLOCK_SIZE == 16

\* ------------------------------------------------------------------------
\* Primitives of Node's crypto module, by contract
\* ------------------------------------------------------------------------
\* createHash('sha256').update(bytes).digest(): 32 bytes, the length and the
\* bytes folded over 31 positions, so that inputs shorter than 32 bytes never
\* collide.
RECURSIVE FoldByte(_, _)
FoldByte(bs, k) == IF k > Len(bs) THEN 0 ELSE (bs[k] + FoldByte(bs, k + 31)) % 256

Sha256Bytes(bs) ==
  [i \in 1..32 |-> IF i = 1 THEN Len(bs) % 256 ELSE FoldByte(bs, i - 1)]

\* PKCS#7: n bytes of value n, 1 <= n <= 16, up to the next block boundary.
Pkcs7Pad(bs) ==
  LET n == AES_BLOCK_SIZE - (Len(bs) % AES_BLOCK_SIZE) IN bs \o Rep(n, n)

Pkcs7Valid(bs) ==
  /\ Len(bs) > 0
  /\ LET n == bs[Len(bs)] IN
       /\ n >= 1 /\ n <= AES_BLOCK_SIZE
       /\ \A i \in (Len(bs) - n + 1)..Len(bs) : bs[i] = n

KeyByte(key, i) == key[((i - 1) % Len(key)) + 1]

\* CBC over the block transformation x |-> x + key (bytewise, mod 256): each
\* block is combined with the previous ciphertext block (the IV first).
CbcEncryptBlocks(key, iv, ps) ==
  LET c[i \in 1..Len(ps)] ==
        (ps[i] + (IF i <= AES_BLOCK_SIZE THEN iv[i] ELSE c[i - AES_BLOCK_SIZE])
               + KeyByte(key, i)) % 256
  IN [i \in 1..Len(ps) |-> c[i]]

CbcDecryptBlocks(key, iv, cs) ==
  [i \in 1..Len(cs) |->
     (cs[i] + 512 - (IF i <= AES_BLOCK_SIZE THEN iv[i] ELSE cs[i - AES_BLOCK_SIZE])
            - KeyByte(key, i)) % 256]

\* createCipheriv('aes-128-cbc', key, iv) + update + final, auto padding on.
CipherAes128Cbc(key, iv, data) ==
  The({ IF Len(k) # AES_BLOCK_SIZE THEN Throw("Invalid key length")
        ELSE IF Len(v) # AES_BLOCK_SIZE THEN Throw("Invalid initialization vector")
        ELSE Ok(CbcEncryptBlocks(k, v, ps))
        : k \in {key}, v \in {iv}, ps \in {Pkcs7Pad(data)} })

\* createDecipheriv('aes-128-cbc', key, iv) + update + final, auto padding on.
DecipherAes128Cbc(key, iv, data) ==
  The({ IF Len(k) # AES_BLOCK_SIZE THEN Throw("Invalid key length")
        ELSE IF Len(v) # AES_BLOCK_SIZE THEN Throw("Invalid initialization vector")
        ELSE IF Len(d) = 0 \/ Len(d) % AES_BLOCK_SIZE # 0
          THEN Throw("wrong final block length")
        ELSE The({ IF ~Pkcs7Valid(ps) THEN Throw("bad decrypt")
                   ELSE Ok(SubSeq(ps, 1, Len(ps) - ps[Len(ps)]))
                   : ps \in {CbcDecryptBlocks(k, v, d)} })
        : k \in {key}, v \in {iv}, d \in {data} })

\* ------------------------------------------------------------------------
\* class Encryption
\* ------------------------------------------------------------------------
\* The fields of an instance, as set by the constructor.
NewInstance ==
  [sensitiveDataKey |-> Null,
   sensitiveRootKey |-> <<>>,
   sensitiveRootKeyVersion |-> Null,
   sensitiveRootKeyValue |-> Null]

\* A lookup that ignores the version field: always the current root key.
RootKeyOf_Current(self, version) == self.sensitiveRootKeyValue

\* A lookup that falls back on the current root key.
RootKeyOf_Fallback(self, version) ==
  IF version \in DOMAIN self.sensitiveRootKey
  THEN Str(self.sensitiveRootKey[version]) ELSE self.sensitiveRootKeyValue

\* this.sensitiveRootKey[version]
RootKeyOf(self, version) ==
  IF version \in DOMAIN self.sensitiveRootKey
  THEN Str(self.sensitiveRootKey[version]) ELSE Undefined

\* An assignment that starts from an empty map.
PutRootKey_Replace(map, version, key) == [v \in {version} |-> key]

\* this.sensitiveRootKey[version] = key
PutRootKey(map, version, key) ==
  [v \in (DOMAIN map) \cup {version} |-> IF v = version THEN key ELSE map[v]]

\* The for loop of init over Object.entries(rootKey), from entry i on; stops
\* at the first entry that fails a check, keeping the entries stored so far.
RECURSIVE InitLoop(_, _, _, _)
InitLoop(prefix, map, entries, i) ==
  IF i > Len(entries) THEN [map |-> map, res |-> Ok(Undefined)]
  ELSE LET version == entries[i][1]
           key == entries[i][2]
       IN
    IF Len(version) # SENSITIVE_ROOT_KEY_VERSION_LEN
      THEN [map |-> map, res |-> Rethrow(prefix, Throw("rootKeyVersion len invalid"))]
    ELSE IF Len(key) # SENSITIVE_ROOT_KEY_LEN
      THEN [map |-> map, res |-> Rethrow(prefix, Throw("rootKey len invalid"))]
    ELSE IF Len(HexDecode(key)) # AES_BLOCK_SIZE
      THEN [map |-> map, res |-> Rethrow(prefix, Throw("rootKey BlockSize error"))]
    ELSE InitLoop(prefix, PutRootKey(map, version, key), entries, i + 1)

\* The body shared by Encryption.init and SensitiveData.initSensitiveKey
\* (they differ in the prefix of the messages only).  rootKey is null or the
\* list of entries of the object, in the order of Object.entries.
InitKeys(prefix, self, cbcKey, rootKey) ==
  IF Len(cbcKey) # SENSITIVE_DATA_KEY_LEN
    THEN [self |-> self, res |-> Rethrow(prefix, Throw("cbcKey len invalid"))]
  ELSE IF Len(HexDecode(cbcKey)) # 2 * AES_BLOCK_SIZE
    THEN [self |-> self, res |-> Rethrow(prefix, Throw("cbcKey BlockSize error"))]
  ELSE LET s1 == [self EXCEPT !.sensitiveDataKey = Str(cbcKey)] IN
    IF rootKey.t = "null" \/ Len(rootKey.entries) = 0
      THEN [self |-> s1, res |-> Rethrow(prefix, Throw("rootKey not empty"))]
    ELSE LET loop == InitLoop(prefix, s1.sensitiveRootKey, rootKey.entries, 1)
             s2 == [s1 EXCEPT !.sensitiveRootKey = loop.map]
         IN
      IF ~loop.res.ok THEN [self |-> s2, res |-> loop.res]
      ELSE IF DOMAIN s2.sensitiveRootKey = {} THEN [self |-> s2, res |-> Ok(Undefined)]
      ELSE LET latest == GreatestOf(DOMAIN s2.sensitiveRootKey) IN
        [self |-> [s2 EXCEPT !.sensitiveRootKeyVersion = Str(latest),
                             !.sensitiveRootKeyValue = Str(s2.sensitiveRootKey[latest])],
         res |-> Ok(Undefined)]

init(self, cbcKey, rootKey) == InitKeys("Init", self, cbcKey, rootKey)

\* sha256(text): lowercase hex of the digest of the UTF-8 bytes.
sha256(text) == HexEncode(Sha256Bytes(Utf8Encode(text)))

\* generateAesKey(): random.toString('hex') of 16 random bytes.
generateAesKey(random) == HexEncode(random)

\* aesCbcEncrypt(plaintext, key) with the IV that randomBytes returns; key is
\* a string or null (Buffer.from(null, 'hex') is a TypeError).
aesCbcEncrypt(plaintext, key, iv) ==
  IF plaintext = <<>> THEN Throw("Plaintext cannot be empty")
  ELSE IF key.t # "string"
    THEN Rethrow("AES CBC Encryption failed", Throw("TypeError: not a string"))
  ELSE The({ IF enc.ok THEN Ok(Str(Base64Encode(iv \o enc.v)))
             ELSE Rethrow("AES CBC Encryption failed", enc)
             : enc \in {CipherAes128Cbc(HexDecode(key.s), iv, Utf8Encode(plaintext))} })

aesCbcDecrypt(ciphertext, key) ==
  IF ciphertext = <<>> THEN Throw("Ciphertext cannot be empty")
  ELSE IF key.t # "string"
    THEN Rethrow("AES CBC Decryption failed", Throw("TypeError: not a string"))
  ELSE The({
    LET iv == SubSeq(data, 1, Min(AES_BLOCK_SIZE, Len(data)))
        encryptedData == SubSeq(data, AES_BLOCK_SIZE + 1, Len(data))
    IN The({ IF dec.ok THEN Ok(Str(Utf8Decode(dec.v)))
             ELSE Rethrow("AES CBC Decryption failed", dec)
             : dec \in {DecipherAes128Cbc(HexDecode(key.s), iv, encryptedData)} })
    : data \in {Base64Decode(ciphertext)} })

\* encrypt(plaintext); rnd holds the three results of randomBytes(16) in the
\* order of the calls: the data key, the IV of secretData, the IV of
\* envelopeKey.
encrypt(self, plaintext, rnd) ==
  IF Falsy(plaintext) THEN Throw("Plaintext cannot be empty")
  ELSE IF Falsy(self.sensitiveRootKeyValue) \/ Falsy(self.sensitiveRootKeyVersion)
    THEN Throw("Sensitive keys not initialized. Call init() first.")
  ELSE LET utf8Plaintext == plaintext.s
           digest == sha256(utf8Plaintext)
           dataKey == generateAesKey(rnd[1])
       IN The({
    IF ~secretData.ok THEN Rethrow("Encryption failed", secretData)
    ELSE The({
      IF ~envelopeKey.ok THEN Rethrow("Encryption failed", envelopeKey)
      ELSE Ok(Str(Join(<<self.sensitiveRootKeyVersion.s, envelopeKey.v.s,
                         digest, secretData.v.s>>)))
      : envelopeKey \in {aesCbcEncrypt(dataKey, self.sensitiveRootKeyValue, rnd[3])} })
    : secretData \in {aesCbcEncrypt(utf8Plaintext, Str(dataKey), rnd[2])} })

\* decryptSensitiveDataByDataKey(ciphertext): the two-field format, under
\* the master key.
decryptSensitiveDataByDataKey(self, ciphertext) ==
  IF Falsy(self.sensitiveDataKey)
    THEN Throw("Sensitive data key not initialized. Call init() first.")
  ELSE The({
    IF Len(parts) # OLD_CIPHERTEXT_SPLIT_LEN
      THEN Rethrow("Legacy decryption failed", Throw("Invalid legacy ciphertext format"))
    ELSE IF parts[1] # DEFAULT_ROOT_KEY_VERSION \/ parts[2] = <<>>
      THEN Rethrow("Legacy decryption failed",
                   Throw("Invalid legacy ciphertext: version mismatch or missing secret data"))
    ELSE The({ IF r.ok THEN r ELSE Rethrow("Legacy decryption failed", r)
               : r \in {aesCbcDecrypt(parts[2], self.sensitiveDataKey)} })
    : parts \in {Split(ciphertext)} })

\* this.sha256(plaintext) !== digest, negated.
DigestMatches_Always(plaintext, digest) == TRUE

DigestMatches(plaintext, digest) == sha256(plaintext) = digest

\* The try block of decrypt(ciphertext).
DecryptBody(self, ciphertext) ==
  The({
  IF Len(parts) = NEW_CIPHERTEXT_SPLIT_LEN THEN
    LET rootKeyVersion == parts[1]
        envelopeKey == parts[2]
        digest == parts[3]
        secretData == parts[4]
        rootKey == RootKeyOf(self, rootKeyVersion)
    IN
    IF rootKeyVersion = <<>> \/ envelopeKey = <<>> \/ digest = <<>> \/ secretData = <<>>
      THEN Throw("Invalid ciphertext format: missing required parts")
    ELSE IF Falsy(rootKey) THEN Throw("Root key version not found")
    ELSE The({
      IF ~dataKey.ok THEN dataKey
      ELSE IF Falsy(dataKey.v) THEN Throw("Failed to decrypt envelope key")
      ELSE The({
        IF ~plaintext.ok THEN plaintext
        ELSE IF Falsy(plaintext.v) THEN Throw("Failed to decrypt secret data")
        ELSE IF ~DigestMatches(plaintext.v.s, digest)
          THEN Throw("Data integrity check failed: SHA256 digest mismatch")
        ELSE plaintext
        : plaintext \in {aesCbcDecrypt(secretData, dataKey.v)} })
      : dataKey \in {aesCbcDecrypt(envelopeKey, rootKey)} })
  ELSE decryptSensitiveDataByDataKey(self, ciphertext)
  : parts \in {Split(ciphertext)} })

decrypt(self, ciphertext) ==
  IF Falsy(ciphertext) THEN Throw("Ciphertext cannot be empty")
  ELSE The({ IF r.ok THEN r ELSE Rethrow("Decryption failed", r)
             : r \in {DecryptBody(self, ciphertext.s)} })

\* ------------------------------------------------------------------------
\* class SensitiveData (src/sensitive): the lineage that answers '' where
\* Encryption throws
\* ------------------------------------------------------------------------
initSensitiveKey(self, cbcKey, rootKey) ==
  InitKeys("InitSensitiveKey", self, cbcKey, rootKey)

SD_aesCbcEncrypt(plaintext, key, iv) ==
  IF plaintext = <<>> THEN Ok(Str(<<>>))
  ELSE IF key.t # "string"
    THEN Rethrow("AES CBC Encryption failed", Throw("TypeError: not a string"))
  ELSE The({ IF enc.ok THEN Ok(Str(Base64Encode(iv \o enc.v)))
             ELSE Rethrow("AES CBC Encryption failed", enc)
             : enc \in {CipherAes128Cbc(HexDecode(key.s), iv, Utf8Encode(plaintext))} })

\* Every failure inside the try block is answered by ''.
SD_aesCbcDecrypt(ciphertext, key) ==
  IF ciphertext = <<>> THEN Ok(Str(<<>>))
  ELSE IF key.t # "string" THEN Ok(Str(<<>>))
  ELSE The({
    LET iv == SubSeq(data, 1, Min(AES_BLOCK_SIZE, Len(data)))
        encryptedData == SubSeq(data, AES_BLOCK_SIZE + 1, Len(data))
    IN The({ IF dec.ok THEN Ok(Str(Utf8Decode(dec.v))) ELSE Ok(Str(<<>>))
             : dec \in {DecipherAes128Cbc(HexDecode(key.s), iv, encryptedData)} })
    : data \in {Base64Decode(ciphertext)} })

\* The operation with the policy of Encryption.encrypt: an error for an
\* absent or empty plaintext.
aes128Sha256EncryptSensitiveData_Throwing(self, plaintext, rnd) ==
  encrypt(self, plaintext, rnd)

aes128Sha256EncryptSensitiveData(self, plaintext, rnd) ==
  IF Falsy(plaintext) THEN Ok(Str(<<>>))
  ELSE LET utf8Plaintext == plaintext.s
           digest == sha256(utf8Plaintext)
           dataKey == generateAesKey(rnd[1])
       IN The({
    IF ~secretData.ok \/ ~envelopeKey.ok THEN Ok(Str(<<>>))
    ELSE Ok(Str(Join(<<self.sensitiveRootKeyVersion.s, envelopeKey.v.s,
                       digest, secretData.v.s>>)))
    : secretData \in {SD_aesCbcEncrypt(utf8Plaintext, Str(dataKey), rnd[2])},
      envelopeKey \in {SD_aesCbcEncrypt(dataKey, self.sensitiveRootKeyValue, rnd[3])} })

SD_decryptSensitiveDataByDataKey(self, ciphertext) ==
  The({
  IF Len(parts) # OLD_CIPHERTEXT_SPLIT_LEN THEN Ok(Str(<<>>))
  ELSE IF parts[1] # DEFAULT_ROOT_KEY_VERSION \/ parts[2] = <<>> THEN Ok(Str(<<>>))
  ELSE SD_aesCbcDecrypt(parts[2], self.sensitiveDataKey)
  : parts \in {Split(ciphertext)} })

aes128Sha256DecryptSensitiveData(self, ciphertext) ==
  IF Falsy(ciphertext) THEN Ok(Str(<<>>))
  ELSE The({
    IF Len(parts) = NEW_CIPHERTEXT_SPLIT_LEN THEN
      LET rootKeyVersion == parts[1]
          envelopeKey == parts[2]
          digest == parts[3]
          secretData == parts[4]
          rootKey == RootKeyOf(self, rootKeyVersion)
      IN
      IF rootKeyVersion = <<>> \/ envelopeKey = <<>> \/ digest = <<>> \/ secretData = <<>>
        THEN Ok(Str(<<>>))
      ELSE IF Falsy(rootKey) THEN Ok(Str(<<>>))
      ELSE The({
        IF Falsy(dataKey.v) THEN Ok(Str(<<>>))
        ELSE The({
          IF Falsy(plaintext.v) THEN Ok(Str(<<>>))
          ELSE IF ~DigestMatches(plaintext.v.s, digest) THEN Ok(Str(<<>>))
          ELSE plaintext
          : plaintext \in {SD_aesCbcDecrypt(secretData, dataKey.v)} })
        : dataKey \in {SD_aesCbcDecrypt(envelopeKey, rootKey)} })
    ELSE SD_decryptSensitiveDataByDataKey(self, ciphertext.s)
    : parts \in {Split(ciphertext.s)} })

\* ------------------------------------------------------------------------
\* Inputs of the calls
\* ------------------------------------------------------------------------
\* Plaintexts have at most MaxPlainLen characters.
MaxPlainLen == 1

HexAlphabet == <<48, 49, 50, 51, 52, 53, 54, 55, 56, 57, 97, 98, 99, 100, 101, 102>>

\* The key material of the test suites.
CbcKey == HexAlphabet \o HexAlphabet \o HexAlphabet \o HexAlphabet
RootKey1 == HexAlphabet \o HexAlphabet
RootKey2 ==
  <<102, 101, 100, 99, 98, 97, 57, 56, 55, 54, 53, 52, 51, 50, 49, 48>> \o HexAlphabet
\* A key written with upper-case hex digits.
RootKey3 ==
  HexAlphabet \o <<70, 69, 68, 67, 66, 65, 57, 56, 55, 54, 53, 52, 51, 50, 49, 48>>
V0001 == <<48, 48, 48, 49>>
V0002 == <<48, 48, 48, 50>>
V0003 == <<48, 48, 48, 51>>

Entries(es) == [t |-> "object", entries |-> es]
NoRootKey == [t |-> "null", entries |-> <<>>]

\* Characters of plaintexts: 'a', ' ', U+4E2D (three bytes of UTF-8) and
\* U+1F389 (a surrogate pair, four bytes of UTF-8).
PlainChars == {<<97>>, <<32>>, <<20013>>, <<55356, 57225>>}

RECURSIVE TextsUpTo(_)
TextsUpTo(n) ==
  IF n = 0 THEN {<<>>}
  ELSE LET shorter == TextsUpTo(n - 1)
       IN shorter \cup {t \o c : t \in shorter, c \in PlainChars}

PlainTexts == TextsUpTo(MaxPlainLen)

\* What the three calls of randomBytes(16) of one encrypt return.
RandomFills == {17, 170}
RandomDraws == {<<Rep(b, 16), Rep((b + 1) % 256, 16), Rep((b + 2) % 256, 16)>> : b \in RandomFills}

\* ------------------------------------------------------------------------
\* State
\* ------------------------------------------------------------------------
VARIABLES
  cls,                      \* class of the instance: "Encryption" or "SensitiveData"
  sensitiveDataKey,         \* this.sensitiveDataKey
  sensitiveRootKey,         \* this.sensitiveRootKey
  sensitiveRootKeyVersion,  \* this.sensitiveRootKeyVersion
  sensitiveRootKeyValue,    \* this.sensitiveRootKeyValue
  produced,                 \* the latest ciphertext that encrypt returned
  last,                     \* the latest call: operation, argument, outcome
  subscriber,               \* class of the subscriber that holds the instance
  entity,                   \* the entity that the subscriber is given
  meta,                     \* the decorator metadata of entity.constructor
  journal,                  \* the latest call of the subscriber, observed
  tasks,                    \* the calls of async functions that have not settled
  integration               \* the fields of the TypeORMIntegration instance

vars == <<cls, sensitiveDataKey, sensitiveRootKey, sensitiveRootKeyVersion,
          sensitiveRootKeyValue, produced, last, subscriber, entity, meta,
          journal, tasks, integration>>

This ==
  [sensitiveDataKey |-> sensitiveDataKey,
   sensitiveRootKey |-> sensitiveRootKey,
   sensitiveRootKeyVersion |-> sensitiveRootKeyVersion,
   sensitiveRootKeyValue |-> sensitiveRootKeyValue]

NoneProduced ==
  [has |-> FALSE, plaintext |-> <<>>, ciphertext |-> <<>>,
   version |-> <<>>, rootKey |-> <<>>]

NoGiven == [kind |-> "none", plaintext |-> <<>>]

NoCall == [op |-> "new", arg |-> Undefined, given |-> NoGiven, res |-> Ok(Undefined)]

\* No subscriber was constructed: no entity, no metadata, nothing observed.
NoSubscriber == "none"
NoMeta ==
  [encryptedFields |-> <<>>, encryptedJsonFields |-> <<>>, hashFields |-> <<>>,
   sensitiveFields |-> <<>>]
NoJournal == [operation |-> "none", before |-> Undefined, log |-> <<>>, passes |-> 0]

\* No async call is in flight, and no TypeORMIntegration was constructed.
NoTasks == <<>>
NoIntegration == "none"

\* new Encryption() or new SensitiveData()
Init ==
  /\ cls \in {"Encryption", "SensitiveData"}
  /\ sensitiveDataKey = NewInstance.sensitiveDataKey
  /\ sensitiveRootKey = NewInstance.sensitiveRootKey
  /\ sensitiveRootKeyVersion = NewInstance.sensitiveRootKeyVersion
  /\ sensitiveRootKeyValue = NewInstance.sensitiveRootKeyValue
  /\ produced = NoneProduced
  /\ last = NoCall
  /\ subscriber = NoSubscriber
  /\ entity = Undefined
  /\ meta = NoMeta
  /\ journal = NoJournal
  /\ tasks = NoTasks
  /\ integration = NoIntegration

SetThis(self) ==
  /\ sensitiveDataKey' = self.sensitiveDataKey
  /\ sensitiveRootKey' = self.sensitiveRootKey
  /\ sensitiveRootKeyVersion' = self.sensitiveRootKeyVersion
  /\ sensitiveRootKeyValue' = self.sensitiveRootKeyValue

\* The calls made on the instance form a scenario: any number of init and
\* encrypt calls, ended by one decrypt.  decrypt changes no field of the
\* instance, so every state of the instance that a longer sequence of calls
\* reaches is reached by a scenario as well.
Open == last.op # "decrypt"

\* A call of init / initSensitiveKey with one of the given pairs of a master
\* key and a root key object.
InitWith(keyPairs) ==
  /\ Open
  /\ \E pair \in keyPairs :
       LET cbcKey == pair[1]
           rootKey == pair[2]
       IN \E r \in {IF cls = "Encryption" THEN init(This, cbcKey, rootKey)
                    ELSE initSensitiveKey(This, cbcKey, rootKey)} :
            /\ SetThis(r.self)
            /\ last' = [op |-> "init", arg |-> <<cbcKey, rootKey>>,
                        given |-> NoGiven, res |-> r.res]
  /\ UNCHANGED <<cls, produced, subscriber, entity, meta, journal, tasks, integration>>

\* A call of encrypt / aes128Sha256EncryptSensitiveData.
EncryptWith(plaintexts) ==
  /\ Open
  /\ \E plaintext \in plaintexts, rnd \in RandomDraws :
       \E r \in {IF cls = "Encryption" THEN encrypt(This, plaintext, rnd)
                 ELSE aes128Sha256EncryptSensitiveData(This, plaintext, rnd)} :
         /\ last' = [op |-> "encrypt", arg |-> plaintext, given |-> NoGiven,
                     res |-> r]
         /\ produced' = IF r.ok /\ ~Falsy(r.v)
                        THEN [has |-> TRUE, plaintext |-> plaintext.s,
                              ciphertext |-> r.v.s,
                              version |-> sensitiveRootKeyVersion.s,
                              rootKey |-> sensitiveRootKeyValue.s]
                        ELSE produced
  /\ UNCHANGED <<cls, sensitiveDataKey, sensitiveRootKey,
                 sensitiveRootKeyVersion, sensitiveRootKeyValue,
                 subscriber, entity, meta, journal, tasks, integration>>

\* A call of decrypt / aes128Sha256DecryptSensitiveData with one of the
\* given inputs, each a pair of a description and a value.
DecryptWith(inputs) ==
  /\ Open
  /\ \E input \in inputs :
       \E r \in {IF cls = "Encryption" THEN decrypt(This, input[2])
                 ELSE aes128Sha256DecryptSensitiveData(This, input[2])} :
         last' = [op |-> "decrypt", arg |-> input[2], given |-> input[1],
                  res |-> r]
  /\ UNCHANGED <<cls, sensitiveDataKey, sensitiveRootKey,
                 sensitiveRootKeyVersion, sensitiveRootKeyValue, produced,
                 subscriber, entity, meta, journal, tasks, integration>>

\* ------------------------------------------------------------------------
\* Inputs of decrypt
\* ------------------------------------------------------------------------
Given(kind, plaintext, value) == <<[kind |-> kind, plaintext |-> plaintext], value>>

\* "0001^" + base64(iv || ct), ct being the plaintext encrypted directly
\* under the 32 bytes of the master key.
LegacyCiphertext(cbcKey, plaintext, iv) ==
  Join(<<DEFAULT_ROOT_KEY_VERSION,
         Base64Encode(iv \o CbcEncryptBlocks(HexDecode(cbcKey), iv,
                                             Pkcs7Pad(Utf8Encode(plaintext))))>>)

\* 'notBase64', 'notHash', 'invalid' of the boundary tests.
NotBase64 == <<110, 111, 116, 66, 97, 115, 101, 54, 52>>
NotHash == <<110, 111, 116, 72, 97, 115, 104>>
Invalid == <<105, 110, 118, 97, 108, 105, 100>>
V9999 == <<57, 57, 57, 57>>

UpperHex(s) == [i \in 1..Len(s) |-> IF s[i] >= 97 /\ s[i] <= 102 THEN s[i] - 32 ELSE s[i]]

FlipFirst(s) == [i \in 1..Len(s) |-> IF i = 1 THEN (IF s[1] = 48 THEN 49 ELSE 48) ELSE s[i]]

\* Strings put in the place of the digest field d of a ciphertext.
OtherDigests(d) ==
  ({sha256(q) : q \in {<<>>, <<97>>, <<32>>}}
     \cup {FlipFirst(d), UpperHex(d), d \o <<48>>, SubSeq(d, 1, 63), NotHash,
           <<>>, <<97, 94, 98>>}) \ {d}

\* The ciphertext that encrypt returned, and strings derived from it.
FromProduced ==
  IF ~produced.has THEN {}
  ELSE UNION { LET f == fields IN
    {Given("produced", produced.plaintext, Str(produced.ciphertext))}
    \cup {Given("digest", produced.plaintext, Str(Join(<<f[1], f[2], d, f[4]>>))) :
            d \in OtherDigests(f[3])}
    \cup {Given("version", produced.plaintext, Str(Join(<<v, f[2], f[3], f[4]>>))) :
            v \in {V9999, V0002, <<>>}}
    \cup {Given("count", produced.plaintext, Str(Join(fs))) :
            fs \in {<<f[1], f[2], f[3]>>, <<f[1], f[2], f[3], f[4], f[4]>>,
                    <<f[2], f[4]>>, <<f[4]>>}}
    \cup {Given("field", produced.plaintext, Str(Join(fs))) :
            fs \in {<<f[1], <<>>, f[3], f[4]>>, <<f[1], f[2], f[3], <<>>>>}}
    \cup {Given("payload", produced.plaintext, Str(Join(fs))) :
            fs \in {<<f[1], NotBase64, f[3], f[4]>>, <<f[1], f[2], f[3], NotBase64>>,
                    <<f[1], f[4], f[3], f[4]>>}}
    : fields \in {Split(produced.ciphertext)} }

\* Inputs that do not depend on an earlier call.
FixedInputs ==
  {Given("null", <<>>, Null), Given("null", <<>>, Undefined),
   Given("empty", <<>>, Str(<<>>))}
  \cup {Given("count", <<>>, Str(Join(fs))) :
          fs \in {<<Invalid>>, <<V0001, Invalid, NotHash>>,
                  <<V0001, Invalid, NotHash, Invalid, Invalid>>,
                  <<<<>>, <<>>, <<>>, <<>>, <<>>, <<>>>>}}
  \cup {Given("field", <<>>, Str(Join(<<V0001, <<>>, <<>>, <<>>>>)))}
  \cup {Given("version", <<>>, Str(Join(<<V0002, Invalid, NotHash, Invalid>>)))}
  \cup {Given("payload", <<>>, Str(Join(<<V0001, NotBase64, NotHash, NotBase64>>)))}
  \cup {Given("legacyversion", <<>>, Str(Join(fs))) :
          fs \in {<<Invalid, NotBase64>>, <<V0002, NotBase64>>, <<V0001, <<>>>>}}
  \cup {Given("legacy", p, Str(LegacyCiphertext(CbcKey, p, Rep(b, 16)))) :
          p \in {<<97>>, <<32, 55356, 57225>>}, b \in {17}}

DecryptInputs == FromProduced \cup FixedInputs

\* ------------------------------------------------------------------------
\* The instance with the key material of the test suites
\* ------------------------------------------------------------------------
InitCall ==
  InitWith({<<k, Entries(<<<<V0001, RootKey1>>>>)>> : k \in {CbcKey, SubSeq(CbcKey, 1, 63)}})

EncryptCall == EncryptWith({Null, Undefined} \cup {Str(p) : p \in PlainTexts})

DecryptCall == DecryptWith(DecryptInputs)

Next == InitCall \/ EncryptCall \/ DecryptCall

Spec == Init /\ [][Next]_vars

\* ------------------------------------------------------------------------
\* The instance under key rotation: init called again and again, with
\* acceptable and unacceptable keys
\* ------------------------------------------------------------------------
\* s with 'g' at position i.
NonHex(s, i) == SubSeq(s, 1, i - 1) \o <<103>> \o SubSeq(s, i + 1, Len(s))

V001 == SubSeq(V0001, 1, 3)
V00011 == V0001 \o <<49>>

\* Root key objects that init accepts: one version, two versions, a version
\* added later, the key of a version replaced, versions out of order.
KeyObjects ==
  {Entries(<<<<V0001, RootKey1>>>>),
   Entries(<<<<V0001, RootKey1>>, <<V0002, RootKey2>>>>),
   Entries(<<<<V0003, RootKey3>>>>),
   Entries(<<<<V0002, RootKey3>>>>),
   Entries(<<<<V0003, RootKey3>>, <<V0002, RootKey2>>>>)}

\* Root key objects that init rejects; the last one after a first entry
\* that passes the checks.
BadKeyObjects ==
  {NoRootKey,
   Entries(<<>>),
   Entries(<<<<V001, RootKey1>>>>),
   Entries(<<<<V00011, RootKey1>>>>),
   Entries(<<<<V0001, SubSeq(RootKey1, 1, 31)>>>>),
   Entries(<<<<V0001, RootKey1 \o <<48>>>>>>),
   Entries(<<<<V0001, NonHex(RootKey1, 32)>>>>),
   Entries(<<<<V0001, NonHex(RootKey1, 1)>>>>),
   Entries(<<<<V0003, RootKey3>>, <<V001, RootKey1>>>>)}

BadMasterKeys ==
  {<<>>, SubSeq(CbcKey, 1, 63), CbcKey \o <<48>>, NonHex(CbcKey, 64), NonHex(CbcKey, 10)}

InitKeysCall ==
  InitWith({<<CbcKey, o>> : o \in KeyObjects \cup BadKeyObjects}
           \cup {<<k, Entries(<<<<V0001, RootKey1>>>>)>> : k \in BadMasterKeys})

EncryptKeysCall == EncryptWith({Str(<<97>>)})

\* decrypt of the ciphertext that encrypt returned, possibly under keys
\* registered since.
DecryptKeysCall ==
  DecryptWith(IF produced.has
              THEN {Given("produced", produced.plaintext, Str(produced.ciphertext))}
              ELSE {})

NextKeys == InitKeysCall \/ EncryptKeysCall \/ DecryptKeysCall

SpecKeys == Init /\ [][NextKeys]_vars

\* ------------------------------------------------------------------------
\* Properties of the calls
\* ------------------------------------------------------------------------
\* A successful init has been made: only the last statement of init sets
\* the current version.
InitDone == ~Falsy(sensitiveRootKeyVersion)

\* The latest call returned a non-empty string (SensitiveData answers ''
\* where it fails).
Returned == last.res.ok /\ ~Falsy(last.res.v)

\* decrypt of the instance, whichever its class.
DecryptNow(ciphertext) ==
  IF cls = "Encryption" THEN decrypt(This, ciphertext)
  ELSE aes128Sha256DecryptSensitiveData(This, ciphertext)

IsBase64Text(s) ==
  /\ s # <<>>
  /\ \A i \in 1..Len(s) :
       \/ s[i] = 61
       \/ (B64Val(s[i]) >= 0 /\ s[i] # 45 /\ s[i] # 95)

IsLowerHex(s) ==
  \A i \in 1..Len(s) : (s[i] >= 48 /\ s[i] <= 57) \/ (s[i] >= 97 /\ s[i] <= 102)

\* C1: after a successful init, decrypt(encrypt(s)) returns exactly s for
\* every non-null string s, the empty string included.
C1_RoundTrip ==
  (cls = "Encryption" /\ last.op = "encrypt" /\ last.arg.t = "string" /\ InitDone)
    => (last.res.ok /\ DecryptNow(last.res.v) = Ok(last.arg))

C3_LegacyDecrypts ==
  /\ (last.op = "decrypt" /\ last.given.kind = "legacy" /\ InitDone
        /\ sensitiveDataKey = Str(CbcKey))
       => (Returned /\ last.res.v = Str(last.given.plaintext))
  /\ (last.op = "encrypt" /\ Returned) => Len(Split(last.res.v.s)) # 2

\* C4: a ciphertext produced while "0002" was the current version decrypts
\* to its plaintext once "0003" is the current version and the key of "0002"
\* is still the registered one, and a ciphertext produced while "0003" is
\* the current version carries "0003".
C4_VersionIsolation ==
  /\ (/\ last.op = "decrypt" /\ last.given.kind = "produced"
      /\ produced.version = V0002
      /\ sensitiveRootKeyVersion = Str(V0003)
      /\ V0002 \in DOMAIN sensitiveRootKey
      /\ sensitiveRootKey[V0002] = produced.rootKey)
       => last.res = Ok(Str(produced.plaintext))
  /\ (last.op = "encrypt" /\ Returned /\ sensitiveRootKeyVersion = Str(V0003))
       => Split(last.res.v.s)[1] = V0003

\* A ciphertext of version "0002" decrypted by Encryption under the current
\* version "0003".
C4_Witness ==
  /\ cls = "Encryption" /\ last.op = "decrypt" /\ last.given.kind = "produced"
  /\ Split(last.arg.s)[1] = V0002
  /\ sensitiveRootKeyVersion = Str(V0003)
  /\ last.res = Ok(Str(<<97>>))

\* C5: after a successful init, encrypt(s) of a non-null s returns four
\* fields: the greatest registered version, a base64 payload, the 64
\* lowercase hex characters of the SHA-256 of s, a base64 payload.
C5_CiphertextFormat ==
  (cls = "Encryption" /\ last.op = "encrypt" /\ last.arg.t = "string" /\ InitDone)
    => /\ last.res.ok
       /\ LET f == Split(last.res.v.s) IN
            /\ Len(f) = 4
            /\ f[1] = GreatestOf(DOMAIN sensitiveRootKey)
            /\ IsBase64Text(f[2]) /\ IsBase64Text(f[4])
            /\ Len(f[3]) = 64 /\ IsLowerHex(f[3]) /\ f[3] = sha256(last.arg.s)

\* C6: encrypt and decrypt return null and undefined unchanged without an
\* error, and encrypt("") returns a ciphertext of four fields.
C6_NullPassThrough ==
  /\ (cls = "Encryption" /\ last.op \in {"encrypt", "decrypt"} /\ last.arg.t # "string")
       => (last.res.ok /\ last.res.v = last.arg)
  /\ (cls = "Encryption" /\ last.op = "encrypt" /\ last.arg = Str(<<>>) /\ InitDone)
       => (last.res.ok /\ Len(Split(last.res.v.s)) = 4)

IsHexText(s) == \A i \in 1..Len(s) : IsHexDigit(s[i])

\* The arguments <<masterKeyHex, rootKeys>> that the claim lets init accept.
ValidInit(arg) ==
  LET cbcKey == arg[1]
      rootKey == arg[2]
  IN /\ Len(cbcKey) = SENSITIVE_DATA_KEY_LEN /\ IsHexText(cbcKey)
     /\ rootKey.t = "object" /\ Len(rootKey.entries) > 0
     /\ \A i \in 1..Len(rootKey.entries) :
          /\ Len(rootKey.entries[i][1]) = SENSITIVE_ROOT_KEY_VERSION_LEN
          /\ Len(rootKey.entries[i][2]) = SENSITIVE_ROOT_KEY_LEN
          /\ IsHexText(rootKey.entries[i][2])

VersionsOf(rootKey) == {rootKey.entries[i][1] : i \in 1..Len(rootKey.entries)}

\* C7: init fails when the master key is not 64 hex characters, when the
\* root keys are absent or empty, when a version is not 4 characters, when
\* a root key is not 32 hex characters; in every other case it succeeds and
\* every given version is registered with its key.
C7_InitValidation ==
  last.op = "init" =>
    /\ last.res.ok <=> ValidInit(last.arg)
    /\ last.res.ok =>
         \A i \in 1..Len(last.arg[2].entries) :
           /\ last.arg[2].entries[i][1] \in DOMAIN sensitiveRootKey
           /\ sensitiveRootKey[last.arg[2].entries[i][1]] = last.arg[2].entries[i][2]

\* A root key of 32 characters, the last of them no hex digit, is refused
\* on the length of its decoding.
C7_Witness ==
  /\ last.op = "init" /\ ~last.res.ok
  /\ last.arg[2] = Entries(<<<<V0001, NonHex(RootKey1, 32)>>>>)
  /\ last.res.err[2] = "rootKey BlockSize error"

\* C8 as stated: after a second successful init the registry holds exactly
\* the versions given to it, the current version is the greatest of them,
\* and a ciphertext of a version that was not given again no longer
\* decrypts.
C8_ReinitReplaces ==
  /\ []((last.op = "init" /\ last.res.ok) =>
          /\ DOMAIN sensitiveRootKey = VersionsOf(last.arg[2])
          /\ sensitiveRootKeyVersion = Str(GreatestOf(VersionsOf(last.arg[2]))))
  /\ [][(/\ last.op = "init" /\ last.res.ok
         /\ last'.op = "decrypt" /\ last'.given.kind = "produced"
         /\ produced.version \notin VersionsOf(last.arg[2]))
          => ~(last'.res.ok /\ ~Falsy(last'.res.v))]_vars

\* C8, amended: a successful init adds the given versions to the registry
\* (a version given again takes the new key, every other version keeps its
\* key), the current version is the greatest version of the whole registry,
\* and a ciphertext of a version that was not given again still decrypts to
\* its plaintext while that version keeps its key.
C8_ReinitMerges ==
  /\ [][(last'.op = "init" /\ last'.res.ok) =>
          /\ DOMAIN sensitiveRootKey' =
               (DOMAIN sensitiveRootKey) \cup VersionsOf(last'.arg[2])
          /\ \A v \in (DOMAIN sensitiveRootKey) \ VersionsOf(last'.arg[2]) :
               sensitiveRootKey'[v] = sensitiveRootKey[v]
          /\ \A i \in 1..Len(last'.arg[2].entries) :
               sensitiveRootKey'[last'.arg[2].entries[i][1]] = last'.arg[2].entries[i][2]
          /\ sensitiveRootKeyVersion' = Str(GreatestOf(DOMAIN sensitiveRootKey'))
          /\ sensitiveRootKeyValue' = Str(sensitiveRootKey'[sensitiveRootKeyVersion'.s])
         ]_vars
  /\ [][(/\ last.op = "init" /\ last.res.ok
         /\ last'.op = "decrypt" /\ last'.given.kind = "produced"
         /\ produced.version \notin VersionsOf(last.arg[2])
         /\ sensitiveRootKey[produced.version] = produced.rootKey)
          => last'.res = Ok(Str(produced.plaintext))]_vars

\* After init with version "0003" alone the registry still holds "0001" and
\* "0002", and a ciphertext of version "0002" made before it is at hand.
C8_Witness ==
  /\ last.op = "init" /\ last.res.ok
  /\ VersionsOf(last.arg[2]) = {V0003}
  /\ DOMAIN sensitiveRootKey = {V0001, V0002, V0003}
  /\ produced.has /\ produced.version = V0002
  /\ sensitiveRootKey[V0002] = produced.rootKey

\* The input of decrypt is refused by its shape or its version field.
Malformed(arg) ==
  LET f == Split(arg.s) IN
    \/ Len(f) \notin {NEW_CIPHERTEXT_SPLIT_LEN, OLD_CIPHERTEXT_SPLIT_LEN}
    \/ (Len(f) = NEW_CIPHERTEXT_SPLIT_LEN /\ f[1] \notin DOMAIN sensitiveRootKey)
    \/ (Len(f) = OLD_CIPHERTEXT_SPLIT_LEN /\ f[1] # DEFAULT_ROOT_KEY_VERSION)

\* C9: decrypt of a string fails, and yields no plaintext, when it has
\* neither four nor two fields, when it has four fields and an unregistered
\* version, and when it has two fields and a version other than "0001".
C9_MalformedRefused ==
  (last.op = "decrypt" /\ last.arg.t = "string" /\ Malformed(last.arg))
    => (~Returned /\ (cls = "Encryption" => ~last.res.ok))

\* An otherwise valid ciphertext with the version replaced by "9999".
C9_Witness ==
  /\ cls = "Encryption" /\ last.op = "decrypt" /\ InitDone /\ produced.has
  /\ last.arg.s = Join(<<V9999>> \o Tail(Split(produced.ciphertext)))
  /\ last.res.err = <<"Decryption failed", "Root key version not found">>

NeverInitialised == Falsy(sensitiveRootKeyValue) \/ Falsy(sensitiveRootKeyVersion)

\* C11: an encrypt call that cannot be performed raises an error, whichever
\* the facade: without initialised keys the call of Encryption.encrypt and
\* of SensitiveData.aes128Sha256EncryptSensitiveData on a plaintext raises,
\* and no encrypt call on a plaintext returns the empty string.
C11_EncryptFailureRaises ==
  /\ (last.op = "encrypt" /\ ~Falsy(last.arg) /\ NeverInitialised) => ~last.res.ok
  /\ (last.op = "encrypt" /\ ~Falsy(last.arg) /\ last.res.ok) => ~Falsy(last.res.v)

\* ------------------------------------------------------------------------
\* JSON values: the documents and entities that the subscribers process
\* ------------------------------------------------------------------------
\* An object is the list of its entries <<key, value>> in insertion order
\* (keys are strings, distinct); an array is the list of its elements.
Obj(es) == [t |-> "object", entries |-> es]
Arr(xs) == [t |-> "array", items |-> xs]
Num(n) == [t |-> "number", n |-> n]

\* !x for any value.
Not(x) ==
  \/ x.t \in {"null", "undefined"}
  \/ (x.t = "string" /\ x.s = <<>>)
  \/ (x.t = "number" /\ x.n = 0)

\* Array.isArray(x)
IsArray(x) == x.t = "array"

\* typeof x === 'object' && x !== null
IsObjectNotNull(x) == x.t \in {"object", "array"}

\* The string of decimal digits of n >= 0, as `${i}` writes it.
RECURSIVE Decimal(_)
Decimal(n) == IF n < 10 THEN <<48 + n>> ELSE Append(Decimal(n \div 10), 48 + (n % 10))

\* The array index that a property key denotes, or -1: a canonical numeric
\* string ("0", "12", never "01").
IndexOfKey(key) ==
  IF key = <<>> \/ (\E i \in 1..Len(key) : key[i] < 48 \/ key[i] > 57) THEN -1
  ELSE IF Len(key) > 1 /\ key[1] = 48 THEN -1
  ELSE LET val[i \in 0..Len(key)] == IF i = 0 THEN 0 ELSE 10 * val[i - 1] + (key[i] - 48)
       IN val[Len(key)]

KeyLength == <<108, 101, 110, 103, 116, 104>>

\* The positions of the entries of an object that carry the key.
EntryAt(obj, key) == {i \in 1..Len(obj.entries) : obj.entries[i][1] = key}

\* obj[key] for a value that is neither null nor undefined: an own property
\* of an object, an element or the length of an array, a character or the
\* length of a string, undefined in every other case.
Get(obj, key) ==
  IF obj.t = "object" THEN
    IF EntryAt(obj, key) = {} THEN Undefined
    ELSE obj.entries[The(EntryAt(obj, key))][2]
  ELSE IF obj.t = "array" THEN
    IF key = KeyLength THEN Num(Len(obj.items))
    ELSE IF IndexOfKey(key) >= 0 /\ IndexOfKey(key) < Len(obj.items)
      THEN obj.items[IndexOfKey(key) + 1]
    ELSE Undefined
  ELSE IF obj.t = "string" THEN
    IF key = KeyLength THEN Num(Len(obj.s))
    ELSE IF IndexOfKey(key) >= 0 /\ IndexOfKey(key) < Len(obj.s)
      THEN Str(<<obj.s[IndexOfKey(key) + 1]>>)
    ELSE Undefined
  ELSE Undefined

\* A sequence with element i replaced.
Replace(xs, i, x) == SubSeq(xs, 1, i - 1) \o <<x>> \o SubSeq(xs, i + 1, Len(xs))

\* obj[key] = value (in a class body, hence in strict mode): the object or
\* array with the property set; a TypeError for a property of a primitive.
Put(obj, key, value) ==
  IF obj.t = "object" THEN
    IF EntryAt(obj, key) = {} THEN Ok(Obj(Append(obj.entries, <<key, value>>)))
    ELSE Ok(Obj(Replace(obj.entries, The(EntryAt(obj, key)), <<key, value>>)))
  ELSE IF obj.t = "array" /\ IndexOfKey(key) >= 0 /\ IndexOfKey(key) < Len(obj.items)
    THEN Ok(Arr(Replace(obj.items, IndexOfKey(key) + 1, value)))
  ELSE Throw("TypeError: Cannot assign to read only property")

\* ------------------------------------------------------------------------
\* parsePath (src/typeorm/json.ts)
\* ------------------------------------------------------------------------
LBracket == 91
RBracket == 93
Dot == 46

Segment(key, isArray, isRootArray) ==
  [key |-> key, isArray |-> isArray, isRootArray |-> isRootArray]

\* path.startsWith(prefix)
StartsWith(path, prefix) ==
  Len(path) >= Len(prefix) /\ SubSeq(path, 1, Len(prefix)) = prefix

\* path.substring(n)
Substring(path, n) == SubSeq(path, n + 1, Len(path))

\* The for loop of parsePath from character i on.
RECURSIVE ParseLoop(_, _, _, _, _)
ParseLoop(path, i, segments, currentKey, isParsingArray) ==
  IF i > Len(path) THEN
    IF currentKey # <<>> THEN Append(segments, Segment(currentKey, FALSE, FALSE))
    ELSE segments
  ELSE IF path[i] = LBracket THEN
    IF currentKey # <<>>
      THEN ParseLoop(path, i + 1, Append(segments, Segment(currentKey, TRUE, FALSE)),
                     <<>>, TRUE)
    ELSE IF Len(segments) > 0 /\ ~isParsingArray
      THEN ParseLoop(path, i + 1,
                     Replace(segments, Len(segments),
                             Segment(segments[Len(segments)].key, TRUE, FALSE)),
                     <<>>, TRUE)
    ELSE ParseLoop(path, i + 1, segments, <<>>, TRUE)
  ELSE IF path[i] = RBracket THEN ParseLoop(path, i + 1, segments, <<>>, FALSE)
  ELSE IF path[i] = Dot /\ ~isParsingArray THEN
    IF currentKey # <<>>
      THEN ParseLoop(path, i + 1, Append(segments, Segment(currentKey, FALSE, FALSE)),
                     <<>>, isParsingArray)
    ELSE ParseLoop(path, i + 1, segments, currentKey, isParsingArray)
  ELSE ParseLoop(path, i + 1, segments, Append(currentKey, path[i]), isParsingArray)

\* The check of the segments at the end of parsePath.
SegmentsRefused(segments) ==
  \E i \in 1..Len(segments) : segments[i].key = <<>> /\ ~segments[i].isRootArray

\* A parsePath that knows no root array marker: the whole path goes through
\* the loop.
parsePath_Unrooted(path) ==
  IF SegmentsRefused(ParseLoop(path, 1, <<>>, <<>>, FALSE))
    THEN Throw("Invalid path format")
  ELSE Ok(ParseLoop(path, 1, <<>>, <<>>, FALSE))

\* A parsePath without the check of the segments at its end.
parsePath_Unchecked(path) ==
  IF StartsWith(path, <<LBracket, RBracket>>) THEN
    IF path = <<LBracket, RBracket>> THEN Ok(<<Segment(<<>>, TRUE, TRUE)>>)
    ELSE Ok(ParseLoop(IF StartsWith(Substring(path, 2), <<Dot>>) THEN Substring(path, 3)
                      ELSE Substring(path, 2),
                      1, <<Segment(<<>>, TRUE, TRUE)>>, <<>>, FALSE))
  ELSE Ok(ParseLoop(path, 1, <<>>, <<>>, FALSE))

parsePath(path) ==
  LET root == <<LBracket, RBracket>>
      segments ==
        IF StartsWith(path, root) THEN
          IF path = root THEN <<Segment(<<>>, TRUE, TRUE)>>
          ELSE LET rest == Substring(path, 2)
                   tail == IF StartsWith(rest, <<Dot>>) THEN Substring(rest, 1) ELSE rest
               IN ParseLoop(tail, 1, <<Segment(<<>>, TRUE, TRUE)>>, <<>>, FALSE)
        ELSE ParseLoop(path, 1, <<>>, <<>>, FALSE)
  IN IF SegmentsRefused(segments) THEN Throw("Invalid path format") ELSE Ok(segments)

\* ------------------------------------------------------------------------
\* class EncryptionSubscriber (src/typeorm/subscriber.ts): the walk
\* ------------------------------------------------------------------------
\* WhiteSpace and LineTerminator code units, which String.prototype.trim
\* removes.
IsWhiteSpace(c) ==
  \/ c \in {9, 10, 11, 12, 13, 32, 160, 5760, 8232, 8233, 8239, 8287, 12288, 65279}
  \/ (c >= 8192 /\ c <= 8202)

\* s.trim()
Trim(s) ==
  LET keep == {i \in 1..Len(s) : ~IsWhiteSpace(s[i])}
  IN IF keep = {} THEN <<>>
     ELSE SubSeq(s, CHOOSE i \in keep : \A j \in keep : i <= j,
                    CHOOSE i \in keep : \A j \in keep : i >= j)

\* A guard that never recognises a ciphertext.
isAlreadyEncrypted_Never(value) == FALSE

\* isAlreadyEncrypted(value) for a string value.
isAlreadyEncrypted(value) ==
  IF Trim(value) = <<>> THEN FALSE
  ELSE \E parts \in {Split(value)} :
    IF Len(parts) = 4 THEN
      /\ Len(parts[1]) = 4
      /\ parts[2] # <<>> /\ parts[3] # <<>> /\ parts[4] # <<>>
    ELSE IF Len(parts) = 2 THEN parts[1] = <<48, 48, 48, 49>> /\ parts[2] # <<>>
    ELSE FALSE

\* The encryption service of the subscriber (its static field): the class
\* and the fields of the instance, or no instance at all.
Service(class, self) == [cls |-> class, self |-> self]
NoService == [cls |-> "none", self |-> NewInstance]

\* What the k-th encrypt call of one operation draws from randomBytes, for
\* a stream that starts at the byte seed.
Draw(seed, k) ==
  <<Rep((seed + 3 * (k - 1)) % 256, 16), Rep((seed + 3 * (k - 1) + 1) % 256, 16),
    Rep((seed + 3 * (k - 1) + 2) % 256, 16)>>

\* encryptionService.encrypt(value) / .aes128Sha256EncryptSensitiveData(value)
ServiceEncrypt(svc, value, rnd) ==
  IF svc.cls = "Encryption" THEN encrypt(svc.self, value, rnd)
  ELSE IF svc.cls = "SensitiveData"
    THEN aes128Sha256EncryptSensitiveData(svc.self, value, rnd)
  ELSE Throw("TypeError: Cannot read properties of undefined")

\* encryptionService.decrypt(value) / .aes128Sha256DecryptSensitiveData(value)
ServiceDecrypt(svc, value) ==
  IF svc.cls = "Encryption" THEN decrypt(svc.self, value)
  ELSE IF svc.cls = "SensitiveData" THEN aes128Sha256DecryptSensitiveData(svc.self, value)
  ELSE Throw("TypeError: Cannot read properties of undefined")

\* new JsonEncryptionError(message, ...) and new FieldEncryptionError(...),
\* thrown: the class of the error, its message, the messages of its cause.
ThrowJson(msg, cause) ==
  [ok |-> FALSE, v |-> Undefined, err |-> <<"JsonEncryptionError", msg>> \o cause]
ThrowField(msg, cause) ==
  [ok |-> FALSE, v |-> Undefined, err |-> <<"FieldEncryptionError", msg>> \o cause]

\* error instanceof JsonEncryptionError / FieldEncryptionError
IsJsonError(r) == ~r.ok /\ r.err # <<>> /\ r.err[1] = "JsonEncryptionError"
IsFieldError(r) == ~r.ok /\ r.err # <<>> /\ r.err[1] = "FieldEncryptionError"

\* What a part of a walk hands on: the value it worked on (mutated in
\* place), its outcome, the record of what it did to leaves, what it logged
\* (step), and the number of encrypt calls made so far.
Walked(obj, res, log, n) == [obj |-> obj, res |-> res, log |-> log, n |-> n]
Step(path, act) == [path |-> path, act |-> act]

\* `[${i}]` appended to a path.
Indexed(path, i) == path \o <<LBracket>> \o Decimal(i) \o <<RBracket>>

\* A leaf branch that treats a failure of encrypt as one of decrypt: it
\* logs the failure and returns.
ProcessLeaf_Swallowing(svc, seed, operation, obj, key, value, newPath, log, n) ==
  IF operation = "encrypt" THEN
    IF isAlreadyEncrypted(value.s)
      THEN Walked(obj, Ok(Undefined), Append(log, Step(newPath, "skipped")), n)
    ELSE The({
      IF e.ok /\ Put(obj, key, e.v).ok
        THEN Walked(Put(obj, key, e.v).v, Ok(Undefined),
                    Append(log, Step(newPath, "encrypted")), n + 1)
      ELSE Walked(obj, Ok(Undefined), Append(log, Step(newPath, "failed")), n + 1)
      : e \in {ServiceEncrypt(svc, value, Draw(seed, n + 1))} })
  ELSE The({
    IF d.ok /\ Put(obj, key, d.v).ok
      THEN Walked(Put(obj, key, d.v).v, Ok(Undefined),
                  Append(log, Step(newPath, "decrypted")), n)
    ELSE Walked(obj, Ok(Undefined), Append(log, Step(newPath, "kept")), n)
    : d \in {ServiceDecrypt(svc, value)} })

\* A leaf branch that raises in decrypt mode as it does in encrypt mode.
ProcessLeaf_Raising(svc, seed, operation, obj, key, value, newPath, log, n) ==
  IF operation = "encrypt" THEN
    IF isAlreadyEncrypted(value.s)
      THEN Walked(obj, Ok(Undefined), Append(log, Step(newPath, "skipped")), n)
    ELSE The({
      IF e.ok /\ Put(obj, key, e.v).ok
        THEN Walked(Put(obj, key, e.v).v, Ok(Undefined),
                    Append(log, Step(newPath, "encrypted")), n + 1)
      ELSE Walked(obj,
                  ThrowJson("Failed to encrypt field at path",
                            IF e.ok THEN Put(obj, key, e.v).err ELSE e.err),
                  Append(log, Step(newPath, "failed")), n + 1)
      : e \in {ServiceEncrypt(svc, value, Draw(seed, n + 1))} })
  ELSE The({
    IF d.ok /\ Put(obj, key, d.v).ok
      THEN Walked(Put(obj, key, d.v).v, Ok(Undefined),
                  Append(log, Step(newPath, "decrypted")), n)
    ELSE Walked(obj,
                ThrowJson("Failed to decrypt field at path",
                          IF d.ok THEN Put(obj, key, d.v).err ELSE d.err),
                Append(log, Step(newPath, "failed")), n)
    : d \in {ServiceDecrypt(svc, value)} })

\* A leaf branch that writes the result under the path of the leaf instead of
\* its key.
ProcessLeaf_Misplacing(svc, seed, operation, obj, key, value, newPath, log, n) ==
  IF operation = "encrypt" THEN
    IF isAlreadyEncrypted(value.s)
      THEN Walked(obj, Ok(Undefined), Append(log, Step(newPath, "skipped")), n)
    ELSE The({
      IF e.ok /\ Put(obj, newPath, e.v).ok
        THEN Walked(Put(obj, newPath, e.v).v, Ok(Undefined),
                    Append(log, Step(newPath, "encrypted")), n + 1)
      ELSE Walked(obj,
                  ThrowJson("Failed to encrypt field at path",
                            IF e.ok THEN Put(obj, newPath, e.v).err ELSE e.err),
                  Append(log, Step(newPath, "failed")), n + 1)
      : e \in {ServiceEncrypt(svc, value, Draw(seed, n + 1))} })
  ELSE The({
    IF d.ok /\ Put(obj, newPath, d.v).ok
      THEN Walked(Put(obj, newPath, d.v).v, Ok(Undefined),
                  Append(log, Step(newPath, "decrypted")), n)
    ELSE Walked(obj, Ok(Undefined), Append(log, Step(newPath, "kept")), n)
    : d \in {ServiceDecrypt(svc, value)} })

\* The leaf branch of processJsonPath (lines 202-229): value is the string
\* obj[key].
ProcessLeaf(svc, seed, operation, obj, key, value, newPath, log, n) ==
  IF operation = "encrypt" THEN
    IF isAlreadyEncrypted(value.s)
      THEN Walked(obj, Ok(Undefined), Append(log, Step(newPath, "skipped")), n)
    ELSE The({
      IF e.ok /\ Put(obj, key, e.v).ok
        THEN Walked(Put(obj, key, e.v).v, Ok(Undefined),
                    Append(log, Step(newPath, "encrypted")), n + 1)
      ELSE Walked(obj,
                  ThrowJson("Failed to encrypt field at path",
                            IF e.ok THEN Put(obj, key, e.v).err ELSE e.err),
                  Append(log, Step(newPath, "failed")), n + 1)
      : e \in {ServiceEncrypt(svc, value, Draw(seed, n + 1))} })
  ELSE The({
    IF d.ok /\ Put(obj, key, d.v).ok
      THEN Walked(Put(obj, key, d.v).v, Ok(Undefined),
                  Append(log, Step(newPath, "decrypted")), n)
    ELSE Walked(obj, Ok(Undefined), Append(log, Step(newPath, "kept")), n)
    : d \in {ServiceDecrypt(svc, value)} })

\* A type check that raises where the value is no array.
ExpectedArray_Raising(obj, at, log, n) ==
  Walked(obj, Throw("Expected array"), Append(log, Step(at, "warned")), n)

\* logger.warn(`Expected array at path ...`): the branch is left, nothing
\* is thrown.
ExpectedArray(obj, at, log, n) ==
  Walked(obj, Ok(Undefined), Append(log, Step(at, "warned")), n)

RECURSIVE processJsonPath(_, _, _, _, _, _, _, _)

\* A loop that ends after the first element it is given.
ProcessItems_FirstOnly(svc, seed, operation, array, segments, path, i, log, n) ==
  IF i > Len(array.items) THEN Walked(array, Ok(Undefined), log, n)
  ELSE The({
    Walked(Arr(Replace(array.items, i, r.obj)), r.res, r.log, r.n)
    : r \in {processJsonPath(svc, seed, operation, array.items[i], segments,
                             Indexed(path, i - 1), log, n)} })

RECURSIVE ProcessItems_Elements(_, _, _, _, _, _, _, _, _)

\* A loop that treats a string element as a leaf where no segment is left.
ProcessItems_Elements(svc, seed, operation, array, segments, path, i, log, n) ==
  IF i > Len(array.items) THEN Walked(array, Ok(Undefined), log, n)
  ELSE The({
    IF ~r.res.ok THEN Walked(Arr(Replace(array.items, i, r.obj)), r.res, r.log, r.n)
    ELSE ProcessItems_Elements(svc, seed, operation, Arr(Replace(array.items, i, r.obj)),
                               segments, path, i + 1, r.log, r.n)
    : r \in {IF segments = <<>> /\ array.items[i].t = "string"
               THEN The({ Walked(Get(leaf.obj, Decimal(i - 1)), leaf.res, leaf.log, leaf.n)
                          : leaf \in {ProcessLeaf(svc, seed, operation, array,
                                                  Decimal(i - 1), array.items[i],
                                                  Indexed(path, i - 1), log, n)} })
             ELSE processJsonPath(svc, seed, operation, array.items[i], segments,
                                  Indexed(path, i - 1), log, n)} })

RECURSIVE ProcessItems(_, _, _, _, _, _, _, _, _)

\* The for loop over the elements of an array, from element i (from 1) on;
\* it ends at the first element whose processing throws.
ProcessItems(svc, seed, operation, array, segments, path, i, log, n) ==
  IF i > Len(array.items) THEN Walked(array, Ok(Undefined), log, n)
  ELSE The({
    IF ~r.res.ok THEN Walked(Arr(Replace(array.items, i, r.obj)), r.res, r.log, r.n)
    ELSE ProcessItems(svc, seed, operation, Arr(Replace(array.items, i, r.obj)),
                      segments, path, i + 1, r.log, r.n)
    : r \in {processJsonPath(svc, seed, operation, array.items[i], segments,
                             Indexed(path, i - 1), log, n)} })

\* processJsonPath(obj, segments, currentPath, operation)
processJsonPath(svc, seed, operation, obj, segments, currentPath, log, n) ==
  IF Not(obj) \/ Len(segments) = 0 THEN Walked(obj, Ok(Undefined), log, n)
  ELSE LET segment == Head(segments)
           remainingSegments == Tail(segments)
           newPath == IF currentPath # <<>> THEN currentPath \o <<Dot>> \o segment.key
                      ELSE segment.key
       IN
    IF segment.isArray THEN
      IF segment.isRootArray THEN
        IF IsArray(obj)
          THEN ProcessItems(svc, seed, operation, obj, remainingSegments, <<>>, 1, log, n)
        ELSE ExpectedArray(obj, currentPath, log, n)
      ELSE IF IsArray(Get(obj, segment.key)) THEN The({
          Walked(Put(obj, segment.key, r.obj).v, r.res, r.log, r.n)
          : r \in {ProcessItems(svc, seed, operation, Get(obj, segment.key),
                                remainingSegments, newPath, 1, log, n)} })
      ELSE ExpectedArray(obj, newPath, log, n)
    ELSE IF Len(remainingSegments) = 0 /\ Get(obj, segment.key).t = "string"
      THEN ProcessLeaf(svc, seed, operation, obj, segment.key, Get(obj, segment.key),
                       newPath, log, n)
    ELSE IF Len(remainingSegments) > 0 /\ IsObjectNotNull(Get(obj, segment.key)) THEN The({
        Walked(Put(obj, segment.key, r.obj).v, r.res, r.log, r.n)
        : r \in {processJsonPath(svc, seed, operation, Get(obj, segment.key),
                                 remainingSegments, newPath, log, n)} })
    ELSE Walked(obj, Ok(Undefined), log, n)

\* processNestedFields(obj, paths, operation), from path i (from 1) on.
RECURSIVE NestedFieldsLoop(_, _, _, _, _, _, _, _)
NestedFieldsLoop(svc, seed, operation, obj, paths, i, log, n) ==
  IF i > Len(paths) THEN Walked(obj, Ok(Undefined), log, n)
  ELSE The({
    IF ~segments.ok THEN Walked(obj, segments, log, n)
    ELSE The({
      IF ~r.res.ok THEN r
      ELSE NestedFieldsLoop(svc, seed, operation, r.obj, paths, i + 1, r.log, r.n)
      : r \in {processJsonPath(svc, seed, operation, obj, segments.v, <<>>, log, n)} })
    : segments \in {parsePath(paths[i])} })

processNestedFields(svc, seed, operation, obj, paths) ==
  NestedFieldsLoop(svc, seed, operation, obj, paths, 1, <<>>, 0)

\* ------------------------------------------------------------------------
\* Entities of the tests of the JSON paths (test/decrypt.test.js)
\* ------------------------------------------------------------------------
Key_addresses == <<97, 100, 100, 114, 101, 115, 115, 101, 115>>
Key_contacts == <<99, 111, 110, 116, 97, 99, 116, 115>>
Key_email == <<101, 109, 97, 105, 108>>
Key_phone == <<112, 104, 111, 110, 101>>
Key_city == <<99, 105, 116, 121>>
Key_name == <<110, 97, 109, 101>>
Key_contactInfo == <<99, 111, 110, 116, 97, 99, 116, 73, 110, 102, 111>>
Key_personalInfo == <<112, 101, 114, 115, 111, 110, 97, 108, 73, 110, 102, 111>>
Key_idCard == <<105, 100, 67, 97, 114, 100>>
Key_missing == <<109, 105, 115, 115, 105, 110, 103>>

\* a.b and a[] in the notation of the paths
Dotted(a, b) == a \o <<Dot>> \o b
Each(a) == a \o <<LBracket, RBracket>>

\* Leaf values: 'a', 'b', ' ', U+4E2D, '', and '0001^x', a plaintext with
\* the shape of a two-field ciphertext.
LeafA == Str(<<97>>)
LeafB == Str(<<98>>)
LeafSpace == Str(<<32>>)
LeafHan == Str(<<20013>>)
LeafEmpty == Str(<<>>)
LeafLookalike == Str(<<48, 48, 48, 49, 94, 120>>)

\* EncryptedJsonField({ autoEncrypt: true, paths })(prototype, field): the
\* entry pushed to __encryptedJsonFields, with the defaults of the decorator.
JsonField(fieldName, paths) ==
  [field |-> fieldName,
   options |-> [autoEncrypt |-> TRUE, autoDecrypt |-> TRUE, paths |-> paths,
                hashField |-> Undefined]]

\* An entity with one JSON field, and the metadata of its class.
JsonCase(fieldName, paths, value) ==
  [entity |-> Obj(<<<<fieldName, value>>>>),
   meta |-> [encryptedFields |-> <<>>,
             encryptedJsonFields |-> <<JsonField(fieldName, paths)>>,
             hashFields |-> <<>>, sensitiveFields |-> <<>>]]

\* A root array of two objects, each with a contacts array of one object.
CaseContacts ==
  JsonCase(Key_addresses, <<Dotted(Each(<<>>), Dotted(Each(Key_contacts), Key_email))>>,
    Arr(<<Obj(<<<<Key_city, LeafA>>,
                <<Key_contacts, Arr(<<Obj(<<<<Key_email, LeafA>>, <<Key_phone, LeafB>>>>)>>)>>>>),
          Obj(<<<<Key_city, LeafB>>,
                <<Key_contacts, Arr(<<Obj(<<<<Key_email, LeafHan>>, <<Key_phone, LeafB>>>>)>>)>>>>)>>))

\* A nested object with a number at an addressed position.
CasePersonalInfo ==
  JsonCase(Key_personalInfo,
    <<Key_name, Dotted(Key_contactInfo, Key_email), Dotted(Key_contactInfo, Key_phone)>>,
    Obj(<<<<Key_name, LeafA>>, <<Key_idCard, LeafB>>,
          <<Key_contactInfo, Obj(<<<<Key_email, LeafSpace>>, <<Key_phone, Num(5)>>>>)>>>>))

\* addresses is null where the path expects an array.
CaseNullArray ==
  JsonCase(Key_personalInfo, <<Dotted(Each(Key_addresses), Key_city), Key_name>>,
    Obj(<<<<Key_addresses, Null>>, <<Key_name, LeafA>>>>))

\* Values of the wrong type along every path: an object and a missing key
\* where an array is expected, a string and a missing key where an object is
\* expected, an object where the root array is expected.
CaseMismatch ==
  JsonCase(Key_personalInfo,
    <<Dotted(Each(Key_addresses), Key_city), Dotted(Each(Key_missing), Key_city),
      Dotted(Key_contactInfo, Key_email), Dotted(Key_missing, Key_city),
      Dotted(Each(<<>>), Key_city)>>,
    Obj(<<<<Key_addresses, Obj(<<<<Key_city, LeafA>>>>)>>,
          <<Key_contactInfo, LeafA>>, <<Key_city, LeafB>>>>))

\* An empty string at the first addressed leaf.
CaseEmptyLeaf ==
  JsonCase(Key_personalInfo, <<Key_name, Key_city>>,
    Obj(<<<<Key_name, LeafEmpty>>, <<Key_city, LeafA>>>>))

\* A root array with elements that are no objects.
CaseMixedArray ==
  JsonCase(Key_addresses, <<Dotted(Each(<<>>), Key_city)>>,
    Arr(<<Obj(<<<<Key_city, LeafA>>>>), Null, LeafB, Obj(<<<<Key_city, Num(1)>>>>),
          Obj(<<<<Key_city, LeafHan>>>>)>>))

\* A plaintext with the shape of a ciphertext before a plain one.
CaseLookalike ==
  JsonCase(Key_personalInfo, <<Key_name, Key_city>>,
    Obj(<<<<Key_name, LeafLookalike>>, <<Key_city, LeafA>>>>))

JsonCases ==
  {CaseContacts, CasePersonalInfo, CaseNullArray, CaseMismatch, CaseEmptyLeaf,
   CaseMixedArray, CaseLookalike}

\* ------------------------------------------------------------------------
\* Specification of the walk: processNestedFields called on the JSON field
\* of an entity, as the tests call it
\* ------------------------------------------------------------------------
\* A scenario makes at most MaxPasses walks.
MaxPasses == 3

\* new Encryption(); new EncryptionSubscriber(encryption, console); an
\* entity of a decorated class.
InitWalkOver(cases) ==
  /\ cls = "Encryption"
  /\ sensitiveDataKey = NewInstance.sensitiveDataKey
  /\ sensitiveRootKey = NewInstance.sensitiveRootKey
  /\ sensitiveRootKeyVersion = NewInstance.sensitiveRootKeyVersion
  /\ sensitiveRootKeyValue = NewInstance.sensitiveRootKeyValue
  /\ produced = NoneProduced
  /\ last = NoCall
  /\ subscriber = "EncryptionSubscriber"
  /\ \E c \in cases : entity = c.entity /\ meta = c.meta
  /\ journal = NoJournal
  /\ tasks = NoTasks
  /\ integration = NoIntegration

InitWalk == InitWalkOver(JsonCases)

\* subscriber.processNestedFields(entity[field], options.paths, operation)
\* for the first entry { field, options } of __encryptedJsonFields.
WalkWith(operation, seeds) ==
  /\ journal.passes < MaxPasses
  /\ \E seed \in seeds :
       \E r \in {processNestedFields(Service(cls, This), seed, operation,
                                     Get(entity, meta.encryptedJsonFields[1].field),
                                     meta.encryptedJsonFields[1].options.paths)} :
         /\ entity' = Put(entity, meta.encryptedJsonFields[1].field, r.obj).v
         /\ last' = [op |-> "processNestedFields", arg |-> Undefined,
                     given |-> NoGiven, res |-> r.res]
         /\ journal' = [operation |-> operation, before |-> entity, log |-> r.log,
                        passes |-> journal.passes + 1]
  /\ UNCHANGED <<cls, sensitiveDataKey, sensitiveRootKey, sensitiveRootKeyVersion,
                 sensitiveRootKeyValue, produced, subscriber, meta, tasks, integration>>

InitServiceCall == InitWith({<<CbcKey, Entries(<<<<V0001, RootKey1>>>>)>>})

EncryptWalkCall == WalkWith("encrypt", RandomFills)

DecryptWalkCall == WalkWith("decrypt", {0})

NextWalk == InitServiceCall \/ EncryptWalkCall \/ DecryptWalkCall

SpecWalk == InitWalk /\ [][NextWalk]_vars

\* ------------------------------------------------------------------------
\* Properties of the walk
\* ------------------------------------------------------------------------
\* The path of the property key under the path at.
Under(at, key) == IF at # <<>> THEN Dotted(at, key) ELSE key

\* Every value of a document that is neither an object nor an array, with
\* the path that leads to it: keys joined by '.', elements as [i].
RECURSIVE Leaves(_, _)
Leaves(value, at) ==
  IF value.t = "object" THEN
    UNION {Leaves(value.entries[i][2], Under(at, value.entries[i][1]))
           : i \in 1..Len(value.entries)}
  ELSE IF value.t = "array" THEN
    UNION {Leaves(value.items[i], Indexed(at, i - 1)) : i \in 1..Len(value.items)}
  ELSE {<<at, value>>}

LeafPaths(value) == {l[1] : l \in Leaves(value, <<>>)}
LeafAt(value, at) == The({l[2] : l \in {m \in Leaves(value, <<>>) : m[1] = at}})

\* The paths of the string leaves that the segments address in a value:
\* an array segment stands for every element of the array, a plain key for
\* the property of an object.
RECURSIVE Addressed(_, _, _)
Addressed(value, segments, at) ==
  IF Len(segments) = 0 \/ value.t \notin {"object", "array"} THEN {}
  ELSE LET segment == Head(segments)
           inner == IF segment.isRootArray THEN value ELSE Get(value, segment.key)
           innerAt == IF segment.isRootArray THEN <<>> ELSE Under(at, segment.key)
       IN
    IF segment.isArray THEN
      IF inner.t = "array"
        THEN UNION {Addressed(inner.items[i], Tail(segments), Indexed(innerAt, i - 1))
                    : i \in 1..Len(inner.items)}
      ELSE {}
    ELSE IF Len(segments) = 1
      THEN (IF inner.t = "string" THEN {innerAt} ELSE {})
    ELSE Addressed(inner, Tail(segments), innerAt)

\* The document that the latest walk was given, before and after it, and
\* its paths.
WalkedField == meta.encryptedJsonFields[1].field
WalkedPaths == meta.encryptedJsonFields[1].options.paths
DocBefore == Get(journal.before, WalkedField)
DocAfter == Get(entity, WalkedField)
WalkReturned == last.op = "processNestedFields" /\ last.res.ok

\* The string leaves of the document that the paths of the walk address.
AddressedLeaves ==
  UNION {Addressed(DocBefore, parsePath(WalkedPaths[i]).v, <<>>)
         : i \in {j \in 1..Len(WalkedPaths) : parsePath(WalkedPaths[j]).ok}}

\* The entries of the record of the walk that are steps on a leaf.
LeafSteps == {i \in 1..Len(journal.log) : journal.log[i].act # "warned"}

\* The transform was applied to the leaf of step i: the leaf holds what
\* encrypt or decrypt returned for its former value, or its former value
\* where the guard skipped it or decrypt refused it.
Transformed(i) ==
  LET step == journal.log[i]
      old == LeafAt(DocBefore, step.path)
      new == LeafAt(DocAfter, step.path)
  IN IF journal.operation = "encrypt" THEN
       IF isAlreadyEncrypted(old.s) THEN step.act = "skipped" /\ new = old
       ELSE /\ step.act = "encrypted" /\ new # old /\ new.t = "string"
            /\ DecryptNow(new) = Ok(old)
     ELSE \E d \in {DecryptNow(old)} :
            IF d.ok THEN step.act = "decrypted" /\ new = d.v
            ELSE step.act = "kept" /\ new = old

\* C12: a walk that returns has applied the transform exactly once to each
\* string leaf that its path addresses and has changed no other value of
\* the document; for "[].contacts[].email" and a root array of two objects,
\* each with a contacts array of one object, these are exactly two leaves.
C12_EachLeafOnce ==
  WalkReturned =>
    /\ \A at \in AddressedLeaves :
         Cardinality({i \in LeafSteps : journal.log[i].path = at}) = 1
    /\ \A i \in LeafSteps : journal.log[i].path \in AddressedLeaves /\ Transformed(i)
    /\ LeafPaths(DocAfter) = LeafPaths(DocBefore)
    /\ \A at \in LeafPaths(DocBefore) \ AddressedLeaves :
         LeafAt(DocAfter, at) = LeafAt(DocBefore, at)
    /\ meta = CaseContacts.meta => Cardinality(LeafSteps) = 2

\* "[].contacts[].email" on the root array of two objects: the two email
\* leaves were encrypted, in the order of the elements.
C12_Witness ==
  /\ WalkReturned /\ journal.operation = "encrypt" /\ InitDone
  /\ meta = CaseContacts.meta /\ journal.before = CaseContacts.entity
  /\ Len(journal.log) = 2
  /\ journal.log[1] = Step(Dotted(Indexed(Dotted(Indexed(<<>>, 0), Key_contacts), 0), Key_email), "encrypted")
  /\ journal.log[2] = Step(Dotted(Indexed(Dotted(Indexed(<<>>, 1), Key_contacts), 0), Key_email), "encrypted")

\* The paths of the values at which the segments cannot go on: a value that
\* is no array where an array segment (root or nested) addresses it, a value
\* that is null or no object where a plain key with segments after it
\* addresses it.
RECURSIVE Mismatches(_, _, _)
Mismatches(value, segments, at) ==
  IF Len(segments) = 0 \/ value.t \notin {"object", "array"} THEN {}
  ELSE LET segment == Head(segments)
           inner == IF segment.isRootArray THEN value ELSE Get(value, segment.key)
           innerAt == IF segment.isRootArray THEN <<>> ELSE Under(at, segment.key)
       IN
    IF segment.isArray THEN
      IF inner.t = "array"
        THEN UNION {Mismatches(inner.items[i], Tail(segments), Indexed(innerAt, i - 1))
                    : i \in 1..Len(inner.items)}
      ELSE {[at |-> innerAt, array |-> TRUE]}
    ELSE IF Len(segments) = 1 THEN {}
    ELSE IF IsObjectNotNull(inner) THEN Mismatches(inner, Tail(segments), innerAt)
    ELSE {[at |-> innerAt, array |-> FALSE]}

\* The mismatches that the paths of the latest walk meet in its document.
WalkMismatches ==
  UNION {Mismatches(DocBefore, parsePath(WalkedPaths[i]).v, <<>>)
         : i \in {j \in 1..Len(WalkedPaths) : parsePath(WalkedPaths[j]).ok}}

\* The path leads to the value at the path root or into it.
Within(at, root) ==
  \/ root = <<>> \/ at = root
  \/ StartsWith(at, root \o <<Dot>>) \/ StartsWith(at, root \o <<LBracket>>)

\* C13: in both modes a walk skips the branch at a value that is no array
\* under an array segment (null and a missing key included) and at a value
\* that is null or no object under a plain key that is not the last segment:
\* the mismatch raises nothing (a walk raises at a failed leaf only) and
\* every leaf within the branch stays as it was; "addresses[].city" on a
\* document whose addresses is null changes nothing.
C13_MismatchSkipped ==
  last.op = "processNestedFields" =>
    /\ ~last.res.ok =>
         /\ journal.operation = "encrypt" /\ Len(journal.log) > 0
         /\ journal.log[Len(journal.log)].act = "failed"
    /\ \A m \in WalkMismatches :
         /\ \A at \in LeafPaths(DocBefore) \ AddressedLeaves :
              Within(at, m.at) => LeafAt(DocAfter, at) = LeafAt(DocBefore, at)
         /\ m.array => \E i \in 1..Len(journal.log) :
                         journal.log[i] = Step(m.at, "warned")
    /\ LeafPaths(DocAfter) = LeafPaths(DocBefore)
    /\ meta = CaseMismatch.meta =>
         last.res.ok /\ entity = journal.before /\ LeafSteps = {}

\* "addresses[].city" on a document whose addresses is null: the walk
\* records the mismatch, leaves null in place and goes on to the next path.
C13_Witness ==
  /\ WalkReturned /\ journal.operation = "decrypt"
  /\ meta = CaseNullArray.meta
  /\ WalkMismatches = {[at |-> Key_addresses, array |-> TRUE]}
  /\ LeafAt(DocAfter, Key_addresses) = Null
  /\ journal.log = <<Step(Key_addresses, "warned"), Step(Key_name, "kept")>>
  /\ entity = journal.before

\* ------------------------------------------------------------------------
\* class Hash (src/hash) and its predecessor HashUtil
\* ------------------------------------------------------------------------
\* String(value): elements of an array are joined with commas, null and
\* undefined elements leave nothing.
RECURSIVE String(_)
String(value) ==
  IF value.t = "string" THEN value.s
  ELSE IF value.t = "number" THEN Decimal(value.n)
  ELSE IF value.t = "null" THEN <<110, 117, 108, 108>>
  ELSE IF value.t = "undefined" THEN <<117, 110, 100, 101, 102, 105, 110, 101, 100>>
  ELSE IF value.t = "object"
    THEN <<91, 111, 98, 106, 101, 99, 116, 32, 79, 98, 106, 101, 99, 116, 93>>
  ELSE LET joined[i \in 0..Len(value.items)] ==
             IF i = 0 THEN <<>>
             ELSE joined[i - 1] \o (IF i > 1 THEN <<44>> ELSE <<>>)
                  \o (IF value.items[i].t \in {"null", "undefined"} THEN <<>>
                      ELSE String(value.items[i]))
       IN joined[Len(value.items)]

\* s.toLowerCase(), code unit by code unit: the letters A-Z, the capital
\* letters of Latin-1 (U+00C0-U+00DE without the sign U+00D7) and U+0130,
\* which becomes 'i' and U+0307; every other code unit of the model has no
\* lower-case form of its own.
LowerOf(c) ==
  IF c >= 65 /\ c <= 90 THEN <<c + 32>>
  ELSE IF c >= 192 /\ c <= 222 /\ c # 215 THEN <<c + 32>>
  ELSE IF c = 304 THEN <<105, 775>>
  ELSE <<c>>

ToLowerCase(s) == LET piece(i) == LowerOf(s[i]) IN ConcatRange(piece, 1, Len(s))

\* digest(encoding) of the SHA-256 of the UTF-8 bytes of a string.
Digest(s, encoding) ==
  IF encoding = "base64" THEN Base64Encode(Sha256Bytes(Utf8Encode(s)))
  ELSE HexEncode(Sha256Bytes(Utf8Encode(s)))

\* A hash that normalises its text first, as HashUtil.sha256 did.
Hash_sha256_Normalizing(text, encoding) ==
  IF text.t \in {"null", "undefined"} THEN Null
  ELSE Str(Digest(ToLowerCase(Trim(String(text))), encoding))

\* Hash.sha256(text, encoding): text is a string, null or undefined.
Hash_sha256(text, encoding) ==
  IF text.t \in {"null", "undefined"} THEN Null
  ELSE Str(Digest(String(text), encoding))

\* Hash.normalize(text)
Hash_normalize(text) ==
  IF text.t \in {"null", "undefined"} THEN Null
  ELSE Str(ToLowerCase(Trim(String(text))))

\* Hash.normalizeSha256(text, encoding)
Hash_normalizeSha256(text, encoding) == Hash_sha256(Hash_normalize(text), encoding)

\* HashUtil.sha256(text, encoding)
HashUtil_sha256(text, encoding) ==
  IF text.t \in {"null", "undefined"} THEN Null
  ELSE LET normalizedText == ToLowerCase(Trim(String(text))) IN
    IF normalizedText = <<>> THEN Str(Digest(<<>>, encoding))
    ELSE Str(Digest(normalizedText, encoding))

\* ------------------------------------------------------------------------
\* class EncryptionSubscriber (src/typeorm/subscriber.ts): the hooks
\* ------------------------------------------------------------------------
\* The code unit at i of s inside a JSON string literal: the short escapes,
\* \u00xx for the other control characters, \udxxx for a surrogate without
\* its partner.
QuoteUnit(s, i) ==
  LET c == s[i]
      hex(d) == IF d < 10 THEN 48 + d ELSE 87 + d
      u4 == <<92, 117, hex(c \div 4096), hex((c \div 256) % 16), hex((c \div 16) % 16),
              hex(c % 16)>>
      paired == \/ (c >= 55296 /\ c <= 56319 /\ i < Len(s)
                    /\ s[i + 1] >= 56320 /\ s[i + 1] <= 57343)
                \/ (c >= 56320 /\ c <= 57343 /\ i > 1
                    /\ s[i - 1] >= 55296 /\ s[i - 1] <= 56319)
  IN IF c = 8 THEN <<92, 98>>
     ELSE IF c = 9 THEN <<92, 116>>
     ELSE IF c = 10 THEN <<92, 110>>
     ELSE IF c = 12 THEN <<92, 102>>
     ELSE IF c = 13 THEN <<92, 114>>
     ELSE IF c = 34 THEN <<92, 34>>
     ELSE IF c = 92 THEN <<92, 92>>
     ELSE IF c < 32 THEN u4
     ELSE IF c >= 55296 /\ c <= 57343 /\ ~paired THEN u4
     ELSE <<c>>

Quote(s) ==
  LET quoted[i \in 0..Len(s)] == IF i = 0 THEN <<>> ELSE quoted[i - 1] \o QuoteUnit(s, i)
  IN <<34>> \o quoted[Len(s)] \o <<34>>

\* JSON.stringify(value) for a value that is not undefined: the entries of
\* an object in insertion order (no key of an object of the model is an
\* array index), an entry whose value is undefined left out, an undefined
\* element of an array written as null.
RECURSIVE JsonStringify(_)
JsonStringify(value) ==
  IF value.t = "string" THEN Quote(value.s)
  ELSE IF value.t = "number" THEN Decimal(value.n)
  ELSE IF value.t \in {"null", "undefined"} THEN <<110, 117, 108, 108>>
  ELSE IF value.t = "array" THEN
    LET joined[i \in 0..Len(value.items)] ==
          IF i = 0 THEN <<>>
          ELSE joined[i - 1] \o (IF i > 1 THEN <<44>> ELSE <<>>)
               \o JsonStringify(value.items[i])
    IN <<91>> \o joined[Len(value.items)] \o <<93>>
  ELSE
    LET joined[i \in 0..Len(value.entries)] ==
          IF i = 0 THEN <<>>
          ELSE IF value.entries[i][2].t = "undefined" THEN joined[i - 1]
          ELSE joined[i - 1] \o (IF joined[i - 1] # <<>> THEN <<44>> ELSE <<>>)
               \o Quote(value.entries[i][1]) \o <<58>> \o JsonStringify(value.entries[i][2])
    IN <<123>> \o joined[Len(value.entries)] \o <<125>>

\* 'hex' and 'base64' as option values, and options.hashEncoding || 'hex'.
Hex == Str(<<104, 101, 120>>)
Base64 == Str(<<98, 97, 115, 101, 54, 52>>)
EncodingOr(hashEncoding) == IF hashEncoding = Base64 THEN "base64" ELSE "hex"

\* Object.keys(value).length === 0 for an object or an array.
HasNoKeys(value) ==
  IF value.t = "array" THEN value.items = <<>> ELSE value.entries = <<>>

\* The hash written before the encryption (lines 100-107, 268-277).
WithHash(ent, options, text) ==
  IF Not(options.hashField) THEN ent
  ELSE Put(ent, options.hashField.s,
           Hash_normalizeSha256(Str(text), EncodingOr(options.hashEncoding))).v

\* encryptField(entity, field, options)
encryptField(svc, seed, ent, field, options, log, n) ==
  IF ~options.autoEncrypt \/ Get(ent, field).t \in {"null", "undefined"}
    THEN Walked(ent, Ok(Undefined), log, n)
  ELSE IF isAlreadyEncrypted(String(Get(ent, field)))
    THEN Walked(ent, Ok(Undefined), Append(log, Step(field, "skipped")), n)
  ELSE The({
    IF e.ok THEN Walked(Put(WithHash(ent, options, String(Get(ent, field))),
                            field, e.v).v,
                        Ok(Undefined), Append(log, Step(field, "encrypted")), n + 1)
    ELSE Walked(WithHash(ent, options, String(Get(ent, field))),
                ThrowField("Failed to encrypt field", e.err),
                Append(log, Step(field, "failed")), n + 1)
    : e \in {ServiceEncrypt(svc, Str(String(Get(ent, field))), Draw(seed, n + 1))} })

\* decryptField(entity, field, options)
decryptField(svc, ent, field, options, log, n) ==
  IF ~options.autoDecrypt \/ Get(ent, field).t \in {"null", "undefined"}
    THEN Walked(ent, Ok(Undefined), log, n)
  ELSE The({
    IF d.ok THEN Walked(Put(ent, field, d.v).v, Ok(Undefined),
                        Append(log, Step(field, "decrypted")), n)
    ELSE Walked(ent, Ok(Undefined), Append(log, Step(field, "kept")), n)
    : d \in {ServiceDecrypt(svc, Str(String(Get(ent, field))))} })

\* The catch of encryptJsonField (lines 282-291): a JsonEncryptionError is
\* thrown on, any other error is wrapped in one.
RethrowJson(res) ==
  IF res.ok \/ IsJsonError(res) THEN res
  ELSE ThrowJson("Failed to encrypt JSON field", res.err)

\* encryptJsonField(entity, field, options)
encryptJsonField(svc, seed, ent, field, options, log, n) ==
  IF ~options.autoEncrypt \/ Get(ent, field).t \in {"null", "undefined"}
    THEN Walked(ent, Ok(Undefined), log, n)
  ELSE IF IsObjectNotNull(Get(ent, field)) /\ HasNoKeys(Get(ent, field))
    THEN Walked(ent, Ok(Undefined), log, n)
  ELSE The({
    Walked(Put(WithHash(ent, options, JsonStringify(Get(ent, field))),
               field, r.obj).v,
           RethrowJson(r.res), r.log, r.n)
    : r \in {NestedFieldsLoop(svc, seed, "encrypt", Get(ent, field), options.paths,
                              1, log, n)} })

\* decryptJsonField(entity, field, options): a JsonEncryptionError is
\* thrown on, any other error is logged.
decryptJsonField(svc, ent, field, options, log, n) ==
  IF ~options.autoDecrypt \/ Get(ent, field).t \in {"null", "undefined"}
    THEN Walked(ent, Ok(Undefined), log, n)
  ELSE IF IsObjectNotNull(Get(ent, field)) /\ HasNoKeys(Get(ent, field))
    THEN Walked(ent, Ok(Undefined), log, n)
  ELSE The({
    Walked(Put(ent, field, r.obj).v,
           IF IsJsonError(r.res) THEN r.res ELSE Ok(Undefined), r.log, r.n)
    : r \in {NestedFieldsLoop(svc, 0, "decrypt", Get(ent, field), options.paths,
                              1, log, n)} })

\* handleEncryptionError(error, operation) for the outcome of a try block:
\* what leaves the catch.
handleEncryptionError(res, operation) ==
  IF res.ok THEN res
  ELSE IF IsFieldError(res) \/ IsJsonError(res) THEN
    IF operation = "decrypt" THEN Ok(Undefined) ELSE res
  ELSE IF operation = "decrypt" THEN ThrowField("Unexpected error during decrypt", res.err)
  ELSE ThrowField("Unexpected error during encrypt", res.err)

\* The two loops of a hook over the fields of the metadata, from field i
\* (from 1) on; a loop ends where handleEncryptionError throws.
RECURSIVE FieldsLoop(_, _, _, _, _, _, _, _)
FieldsLoop(svc, seed, operation, ent, fields, i, log, n) ==
  IF i > Len(fields) THEN Walked(ent, Ok(Undefined), log, n)
  ELSE The({
    IF ~handleEncryptionError(r.res, operation).ok
      THEN Walked(r.obj, handleEncryptionError(r.res, operation), r.log, r.n)
    ELSE FieldsLoop(svc, seed, operation, r.obj, fields, i + 1, r.log, r.n)
    : r \in {IF operation = "encrypt"
               THEN encryptField(svc, seed, ent, fields[i].field, fields[i].options,
                                 log, n)
             ELSE decryptField(svc, ent, fields[i].field, fields[i].options, log, n)} })

RECURSIVE JsonFieldsLoop(_, _, _, _, _, _, _, _)
JsonFieldsLoop(svc, seed, operation, ent, fields, i, log, n) ==
  IF i > Len(fields) THEN Walked(ent, Ok(Undefined), log, n)
  ELSE The({
    IF ~handleEncryptionError(r.res, operation).ok
      THEN Walked(r.obj, handleEncryptionError(r.res, operation), r.log, r.n)
    ELSE JsonFieldsLoop(svc, seed, operation, r.obj, fields, i + 1, r.log, r.n)
    : r \in {IF operation = "encrypt"
               THEN encryptJsonField(svc, seed, ent, fields[i].field,
                                     fields[i].options, log, n)
             ELSE decryptJsonField(svc, ent, fields[i].field, fields[i].options,
                                   log, n)} })

\* The loop over the plain fields, then the loop over the JSON fields.
BothLoops(svc, seed, operation, ent, metadata) ==
  The({
    IF ~r.res.ok THEN r
    ELSE JsonFieldsLoop(svc, seed, operation, r.obj, metadata.encryptedJsonFields, 1,
                        r.log, r.n)
    : r \in {FieldsLoop(svc, seed, operation, ent, metadata.encryptedFields, 1,
                        <<>>, 0)} })

\* beforeInsert(event) with event.entity = entity
beforeInsert(svc, seed, ent, metadata) ==
  IF Not(ent) THEN Walked(ent, Ok(Undefined), <<>>, 0)
  ELSE IF svc.cls = NoService.cls
    THEN Walked(ent, ThrowField("Encryption service not initialized", <<>>), <<>>, 0)
  ELSE BothLoops(svc, seed, "encrypt", ent, metadata)

\* afterLoad(entity)
afterLoad(svc, ent, metadata) ==
  IF Not(ent) \/ svc.cls = NoService.cls THEN Walked(ent, Ok(Undefined), <<>>, 0)
  ELSE BothLoops(svc, 0, "decrypt", ent, metadata)

\* beforeUpdate(event) with event.entity = entity
beforeUpdate(svc, seed, ent, metadata) ==
  IF Not(ent) THEN Walked(ent, Ok(Undefined), <<>>, 0)
  ELSE BothLoops(svc, seed, "encrypt", ent, metadata)

\* ------------------------------------------------------------------------
\* class AdvancedEncryptionSubscriber, over a SensitiveData service
\* ------------------------------------------------------------------------
\* new EncryptionError(message, ...), thrown; error instanceof EncryptionError
ThrowEncryption(msg, cause) ==
  [ok |-> FALSE, v |-> Undefined, err |-> <<"EncryptionError", msg>> \o cause]
IsEncryptionError(r) == ~r.ok /\ r.err # <<>> /\ r.err[1] = "EncryptionError"

\* The segments of this parser have no isRootArray.
AdvancedSegment(key, isArray) == [key |-> key, isArray |-> isArray]

\* The loop of parsePath from the character at i (from 1) on.
RECURSIVE AdvancedParseLoop(_, _, _, _, _)
AdvancedParseLoop(path, i, segments, current, inBrackets) ==
  IF i > Len(path)
    THEN IF current # <<>> THEN Append(segments, AdvancedSegment(current, FALSE))
         ELSE segments
  ELSE IF path[i] = LBracket THEN
    AdvancedParseLoop(path, i + 1,
      IF current # <<>> THEN Append(segments, AdvancedSegment(current, FALSE))
      ELSE segments,
      <<>>, TRUE)
  ELSE IF path[i] = RBracket THEN
    AdvancedParseLoop(path, i + 1,
      Append(segments, AdvancedSegment(IF current # <<>> THEN current ELSE <<48>>, TRUE)),
      <<>>, FALSE)
  ELSE IF path[i] = Dot /\ ~inBrackets THEN
    AdvancedParseLoop(path, i + 1,
      IF current # <<>> THEN Append(segments, AdvancedSegment(current, FALSE))
      ELSE segments,
      <<>>, inBrackets)
  ELSE AdvancedParseLoop(path, i + 1, segments, Append(current, path[i]), inBrackets)

\* parsePath(path) of the module of AdvancedEncryptionSubscriber
Advanced_parsePath(path) == AdvancedParseLoop(path, 1, <<>>, <<>>, FALSE)

\* The leaf branch of processJsonPath (lines 440-465): what the service
\* returns is assigned, the empty string of a failure included.
Advanced_ProcessLeaf(svc, seed, operation, obj, key, value, newPath, log, n) ==
  IF operation = "encrypt" THEN The({
      IF e.ok /\ Put(obj, key, e.v).ok
        THEN Walked(Put(obj, key, e.v).v, Ok(Undefined),
                    Append(log, Step(newPath, "encrypted")), n + 1)
      ELSE Walked(obj,
                  ThrowEncryption("Failed to encrypt field at path",
                                  IF e.ok THEN Put(obj, key, e.v).err ELSE e.err),
                  Append(log, Step(newPath, "failed")), n + 1)
      : e \in {ServiceEncrypt(svc, value, Draw(seed, n + 1))} })
  ELSE The({
    IF d.ok /\ Put(obj, key, d.v).ok
      THEN Walked(Put(obj, key, d.v).v, Ok(Undefined),
                  Append(log, Step(newPath, "decrypted")), n)
    ELSE Walked(obj, Ok(Undefined), Append(log, Step(newPath, "kept")), n)
    : d \in {ServiceDecrypt(svc, value)} })

RECURSIVE Advanced_processJsonPath(_, _, _, _, _, _, _, _)

\* The for loop over the elements of an array, from element i (from 1) on.
RECURSIVE Advanced_ProcessItems(_, _, _, _, _, _, _, _, _)
Advanced_ProcessItems(svc, seed, operation, array, segments, path, i, log, n) ==
  IF i > Len(array.items) THEN Walked(array, Ok(Undefined), log, n)
  ELSE The({
    IF ~r.res.ok THEN Walked(Arr(Replace(array.items, i, r.obj)), r.res, r.log, r.n)
    ELSE Advanced_ProcessItems(svc, seed, operation, Arr(Replace(array.items, i, r.obj)),
                               segments, path, i + 1, r.log, r.n)
    : r \in {Advanced_processJsonPath(svc, seed, operation, array.items[i], segments,
                                      Indexed(path, i - 1), log, n)} })

\* processJsonPath(obj, segments, currentPath, operation): there is no
\* guard, so the first segment of an empty list and a property of null or
\* undefined are read, which throws a TypeError.
Advanced_processJsonPath(svc, seed, operation, obj, segments, currentPath, log, n) ==
  IF Len(segments) = 0 \/ obj.t \in {"null", "undefined"}
    THEN Walked(obj, Throw("TypeError: Cannot read properties of undefined"), log, n)
  ELSE LET segment == Head(segments)
           remainingSegments == Tail(segments)
           newPath == IF currentPath # <<>> THEN currentPath \o <<Dot>> \o segment.key
                      ELSE segment.key
       IN
    IF segment.isArray THEN
      IF IsArray(Get(obj, segment.key)) THEN The({
          Walked(IF Put(obj, segment.key, r.obj).ok THEN Put(obj, segment.key, r.obj).v
                 ELSE obj, r.res, r.log, r.n)
          : r \in {Advanced_ProcessItems(svc, seed, operation, Get(obj, segment.key),
                                         remainingSegments, newPath, 1, log, n)} })
      ELSE Walked(obj, Ok(Undefined), Append(log, Step(newPath, "warned")), n)
    ELSE IF Len(remainingSegments) = 0 /\ Get(obj, segment.key).t = "string"
      THEN Advanced_ProcessLeaf(svc, seed, operation, obj, segment.key,
                                Get(obj, segment.key), newPath, log, n)
    ELSE IF Len(remainingSegments) > 0 /\ IsObjectNotNull(Get(obj, segment.key)) THEN The({
        Walked(IF Put(obj, segment.key, r.obj).ok THEN Put(obj, segment.key, r.obj).v
               ELSE obj, r.res, r.log, r.n)
        : r \in {Advanced_processJsonPath(svc, seed, operation, Get(obj, segment.key),
                                          remainingSegments, newPath, log, n)} })
    ELSE Walked(obj, Ok(Undefined), log, n)

\* processNestedFields(obj, paths, operation), from path i (from 1) on.
RECURSIVE Advanced_NestedFieldsLoop(_, _, _, _, _, _, _, _)
Advanced_NestedFieldsLoop(svc, seed, operation, obj, paths, i, log, n) ==
  IF i > Len(paths) THEN Walked(obj, Ok(Undefined), log, n)
  ELSE The({
    IF ~r.res.ok THEN r
    ELSE Advanced_NestedFieldsLoop(svc, seed, operation, r.obj, paths, i + 1, r.log, r.n)
    : r \in {Advanced_processJsonPath(svc, seed, operation, obj,
                                      Advanced_parsePath(paths[i]), <<>>, log, n)} })

\* paths.filter(path => path.startsWith('[]')) and its complement
SelectPaths(paths, rooted) ==
  LET sel[i \in 0..Len(paths)] ==
        IF i = 0 THEN <<>>
        ELSE IF StartsWith(paths[i], <<LBracket, RBracket>>) = rooted
          THEN Append(sel[i - 1], paths[i])
        ELSE sel[i - 1]
  IN sel[Len(paths)]

\* .map(path => path.substring(path.startsWith('[].') ? 3 : 2))
StripRoot(paths) ==
  LET out[i \in 0..Len(paths)] ==
        IF i = 0 THEN <<>>
        ELSE Append(out[i - 1],
                    Substring(paths[i],
                              IF StartsWith(paths[i], <<LBracket, RBracket, Dot>>) THEN 3
                              ELSE 2))
  IN out[Len(paths)]

\* A call of processNestedFields made by encryptJsonField or decryptJsonField:
\* on the element index (from 1) of the field value, or on the field value
\* itself (index 0), with the paths given.
Advanced_Walk(index, paths) == [index |-> index, paths |-> paths]

\* The loop over the elements of a root array (lines 505-510, 549-554), from
\* element i (from 1) on: each element that is an object is walked.
RECURSIVE Advanced_RootItems(_, _, _)
Advanced_RootItems(array, paths, i) ==
  IF i > Len(array.items) THEN <<>>
  ELSE IF ~IsObjectNotNull(array.items[i]) THEN Advanced_RootItems(array, paths, i + 1)
  ELSE <<Advanced_Walk(i, paths)>> \o Advanced_RootItems(array, paths, i + 1)

\* The calls of processNestedFields in the try block, in their order: the
\* walks of the elements with the rooted paths, then the walk of the field
\* value with the other paths if there are any; or one walk with all paths.
Advanced_Walks(fieldValue, paths) ==
  IF IsArray(fieldValue) /\ SelectPaths(paths, TRUE) # <<>>
    THEN Advanced_RootItems(fieldValue, StripRoot(SelectPaths(paths, TRUE)), 1)
         \o (IF SelectPaths(paths, FALSE) # <<>>
               THEN <<Advanced_Walk(0, SelectPaths(paths, FALSE))>>
             ELSE <<>>)
  ELSE <<Advanced_Walk(0, paths)>>

\* The calls made one after the other, from call t (from 1) on; the first
\* that throws ends the block.
RECURSIVE Advanced_WalksLoop(_, _, _, _, _, _, _, _)
Advanced_WalksLoop(svc, seed, operation, fieldValue, walks, t, log, n) ==
  IF t > Len(walks) THEN Walked(fieldValue, Ok(Undefined), log, n)
  ELSE The({ The({
    IF ~r.res.ok THEN Walked(after, r.res, r.log, r.n)
    ELSE Advanced_WalksLoop(svc, seed, operation, after, walks, t + 1, r.log, r.n)
    : after \in {IF walks[t].index = 0 THEN r.obj
                 ELSE Arr(Replace(fieldValue.items, walks[t].index, r.obj))} })
    : r \in {Advanced_NestedFieldsLoop(svc, seed, operation,
                                       IF walks[t].index = 0 THEN fieldValue
                                       ELSE fieldValue.items[walks[t].index],
                                       walks[t].paths, 1, log, n)} })

\* The try block of encryptJsonField and of decryptJsonField.
Advanced_JsonFieldBody(svc, seed, operation, fieldValue, paths, log, n) ==
  Advanced_WalksLoop(svc, seed, operation, fieldValue,
                     Advanced_Walks(fieldValue, paths), 1, log, n)

\* encryptField(entity, field, options)
Advanced_encryptField(svc, seed, ent, field, options, log, n) ==
  IF ~options.autoEncrypt \/ Get(ent, field).t \in {"null", "undefined"}
    THEN Walked(ent, Ok(Undefined), log, n)
  ELSE The({
    IF e.ok THEN Walked(Put(ent, field, e.v).v, Ok(Undefined),
                        Append(log, Step(field, "encrypted")), n + 1)
    ELSE Walked(ent, ThrowEncryption("Failed to encrypt field", e.err),
                Append(log, Step(field, "failed")), n + 1)
    : e \in {ServiceEncrypt(svc, Str(String(Get(ent, field))), Draw(seed, n + 1))} })

\* decryptField(entity, field, options): an empty result and an error both
\* keep the original value.
Advanced_decryptField(svc, ent, field, options, log, n) ==
  IF Get(ent, field).t \in {"null", "undefined"} THEN Walked(ent, Ok(Undefined), log, n)
  ELSE The({
    IF d.ok /\ d.v.t \notin {"null", "undefined"} /\ d.v # Str(<<>>)
      THEN Walked(Put(ent, field, d.v).v, Ok(Undefined),
                  Append(log, Step(field, "decrypted")), n)
    ELSE Walked(ent, Ok(Undefined), Append(log, Step(field, "kept")), n)
    : d \in {ServiceDecrypt(svc, Str(String(Get(ent, field))))} })

\* encryptJsonField(entity, field, options)
Advanced_encryptJsonField(svc, seed, ent, field, options, log, n) ==
  IF ~options.autoEncrypt \/ Get(ent, field).t \in {"null", "undefined"}
    THEN Walked(ent, Ok(Undefined), log, n)
  ELSE The({
    Walked(Put(ent, field, r.obj).v,
           IF r.res.ok \/ IsEncryptionError(r.res) THEN r.res
           ELSE ThrowEncryption("Failed to encrypt JSON field", r.res.err),
           r.log, r.n)
    : r \in {Advanced_JsonFieldBody(svc, seed, "encrypt", Get(ent, field), options.paths,
                                    log, n)} })

\* decryptJsonField(entity, field, options)
Advanced_decryptJsonField(svc, ent, field, options, log, n) ==
  IF Get(ent, field).t \in {"null", "undefined"} THEN Walked(ent, Ok(Undefined), log, n)
  ELSE The({
    Walked(Put(ent, field, r.obj).v,
           IF IsEncryptionError(r.res) THEN r.res ELSE Ok(Undefined), r.log, r.n)
    : r \in {Advanced_JsonFieldBody(svc, 0, "decrypt", Get(ent, field), options.paths,
                                    log, n)} })

\* handleEncryptionError(error, operation)
Advanced_handleEncryptionError(res, operation) ==
  IF res.ok THEN res
  ELSE IF IsEncryptionError(res) THEN
    IF operation = "decrypt" THEN Ok(Undefined) ELSE res
  ELSE IF operation = "decrypt"
    THEN ThrowEncryption("Unexpected error during decrypt", res.err)
  ELSE ThrowEncryption("Unexpected error during encrypt", res.err)

RECURSIVE Advanced_FieldsLoop(_, _, _, _, _, _, _, _)
Advanced_FieldsLoop(svc, seed, operation, ent, fields, i, log, n) ==
  IF i > Len(fields) THEN Walked(ent, Ok(Undefined), log, n)
  ELSE The({
    IF ~Advanced_handleEncryptionError(r.res, operation).ok
      THEN Walked(r.obj, Advanced_handleEncryptionError(r.res, operation), r.log, r.n)
    ELSE Advanced_FieldsLoop(svc, seed, operation, r.obj, fields, i + 1, r.log, r.n)
    : r \in {IF operation = "encrypt"
               THEN Advanced_encryptField(svc, seed, ent, fields[i].field,
                                          fields[i].options, log, n)
             ELSE Advanced_decryptField(svc, ent, fields[i].field, fields[i].options,
                                        log, n)} })

RECURSIVE Advanced_JsonFieldsLoop(_, _, _, _, _, _, _, _)
Advanced_JsonFieldsLoop(svc, seed, operation, ent, fields, i, log, n) ==
  IF i > Len(fields) THEN Walked(ent, Ok(Undefined), log, n)
  ELSE The({
    IF ~Advanced_handleEncryptionError(r.res, operation).ok
      THEN Walked(r.obj, Advanced_handleEncryptionError(r.res, operation), r.log, r.n)
    ELSE Advanced_JsonFieldsLoop(svc, seed, operation, r.obj, fields, i + 1, r.log, r.n)
    : r \in {IF operation = "encrypt"
               THEN Advanced_encryptJsonField(svc, seed, ent, fields[i].field,
                                              fields[i].options, log, n)
             ELSE Advanced_decryptJsonField(svc, ent, fields[i].field,
                                            fields[i].options, log, n)} })

Advanced_BothLoops(svc, seed, operation, ent, metadata) ==
  The({
    IF ~r.res.ok THEN r
    ELSE Advanced_JsonFieldsLoop(svc, seed, operation, r.obj,
                                 metadata.encryptedJsonFields, 1, r.log, r.n)
    : r \in {Advanced_FieldsLoop(svc, seed, operation, ent, metadata.encryptedFields, 1,
                                 <<>>, 0)} })

\* beforeInsert(event), afterLoad(entity), beforeUpdate(event)
Advanced_beforeInsert(svc, seed, ent, metadata) ==
  IF Not(ent) THEN Walked(ent, Ok(Undefined), <<>>, 0)
  ELSE IF svc.cls = NoService.cls
    THEN Walked(ent, ThrowEncryption("Encryption service not initialized", <<>>), <<>>, 0)
  ELSE Advanced_BothLoops(svc, seed, "encrypt", ent, metadata)

Advanced_afterLoad(svc, ent, metadata) ==
  IF Not(ent) \/ svc.cls = NoService.cls THEN Walked(ent, Ok(Undefined), <<>>, 0)
  ELSE Advanced_BothLoops(svc, 0, "decrypt", ent, metadata)

Advanced_beforeUpdate(svc, seed, ent, metadata) ==
  IF Not(ent) THEN Walked(ent, Ok(Undefined), <<>>, 0)
  ELSE Advanced_BothLoops(svc, seed, "encrypt", ent, metadata)

\* ------------------------------------------------------------------------
\* class SensitiveDataSubscriber of TypeORMIntegration
\* (src/typeorm/typeorm_integration.ts)
\* ------------------------------------------------------------------------
\* encryptFields(entity, fields) and decryptFields(entity, fields), from
\* field i (from 1) on: a non-empty string is replaced by what the service
\* returns.
RECURSIVE encryptFields(_, _, _, _, _, _, _)
encryptFields(svc, seed, ent, fields, i, log, n) ==
  IF i > Len(fields) THEN Walked(ent, Ok(Undefined), log, n)
  ELSE IF Not(Get(ent, fields[i])) \/ Get(ent, fields[i]).t # "string"
    THEN encryptFields(svc, seed, ent, fields, i + 1, log, n)
  ELSE The({
    IF ~e.ok THEN Walked(ent, e, Append(log, Step(fields[i], "failed")), n + 1)
    ELSE encryptFields(svc, seed, Put(ent, fields[i], e.v).v, fields, i + 1,
                       Append(log, Step(fields[i], "encrypted")), n + 1)
    : e \in {ServiceEncrypt(svc, Get(ent, fields[i]), Draw(seed, n + 1))} })

RECURSIVE decryptFields(_, _, _, _, _, _)
decryptFields(svc, ent, fields, i, log, n) ==
  IF i > Len(fields) THEN Walked(ent, Ok(Undefined), log, n)
  ELSE IF Not(Get(ent, fields[i])) \/ Get(ent, fields[i]).t # "string"
    THEN decryptFields(svc, ent, fields, i + 1, log, n)
  ELSE The({
    IF ~d.ok THEN Walked(ent, d, Append(log, Step(fields[i], "failed")), n)
    ELSE decryptFields(svc, Put(ent, fields[i], d.v).v, fields, i + 1,
                       Append(log, Step(fields[i], "decrypted")), n)
    : d \in {ServiceDecrypt(svc, Get(ent, fields[i]))} })

\* beforeInsert(event) and beforeUpdate(event): event.entity.constructor is
\* read first; sensitiveFields is the list configured for the class of the
\* entity, empty where none is.
Basic_beforeInsert(svc, seed, ent, metadata) ==
  IF ent.t \in {"null", "undefined"}
    THEN Walked(ent, Throw("TypeError: Cannot read properties of undefined"), <<>>, 0)
  ELSE encryptFields(svc, seed, ent, metadata.sensitiveFields, 1, <<>>, 0)

Basic_beforeUpdate(svc, seed, ent, metadata) ==
  IF ent.t \in {"null", "undefined"}
    THEN Walked(ent, Throw("TypeError: Cannot read properties of undefined"), <<>>, 0)
  ELSE encryptFields(svc, seed, ent, metadata.sensitiveFields, 1, <<>>, 0)

\* afterLoad(entity)
Basic_afterLoad(svc, ent, metadata) ==
  IF ent.t \in {"null", "undefined"}
    THEN Walked(ent, Throw("TypeError: Cannot read properties of undefined"), <<>>, 0)
  ELSE decryptFields(svc, ent, metadata.sensitiveFields, 1, <<>>, 0)

\* ------------------------------------------------------------------------
\* class EncryptionSubscriber in the version that reads the @HashField
\* metadata (getHashFields): no guard against a second encryption, the empty
\* string left alone, the hash fields written after the encryption
\* ------------------------------------------------------------------------
\* The leaf branch of processJsonPath in this version.
Earlier_ProcessLeaf(svc, seed, operation, obj, key, value, newPath, log, n) ==
  IF operation = "encrypt" THEN The({
      IF e.ok /\ Put(obj, key, e.v).ok
        THEN Walked(Put(obj, key, e.v).v, Ok(Undefined),
                    Append(log, Step(newPath, "encrypted")), n + 1)
      ELSE Walked(obj,
                  ThrowJson("Failed to encrypt field at path",
                            IF e.ok THEN Put(obj, key, e.v).err ELSE e.err),
                  Append(log, Step(newPath, "failed")), n + 1)
      : e \in {ServiceEncrypt(svc, value, Draw(seed, n + 1))} })
  ELSE The({
    IF d.ok /\ Put(obj, key, d.v).ok
      THEN Walked(Put(obj, key, d.v).v, Ok(Undefined),
                  Append(log, Step(newPath, "decrypted")), n)
    ELSE Walked(obj, Ok(Undefined), Append(log, Step(newPath, "kept")), n)
    : d \in {ServiceDecrypt(svc, value)} })

RECURSIVE Earlier_processJsonPath(_, _, _, _, _, _, _, _)

RECURSIVE Earlier_ProcessItems(_, _, _, _, _, _, _, _, _)
Earlier_ProcessItems(svc, seed, operation, array, segments, path, i, log, n) ==
  IF i > Len(array.items) THEN Walked(array, Ok(Undefined), log, n)
  ELSE The({
    IF ~r.res.ok THEN Walked(Arr(Replace(array.items, i, r.obj)), r.res, r.log, r.n)
    ELSE Earlier_ProcessItems(svc, seed, operation, Arr(Replace(array.items, i, r.obj)),
                              segments, path, i + 1, r.log, r.n)
    : r \in {Earlier_processJsonPath(svc, seed, operation, array.items[i], segments,
                                     Indexed(path, i - 1), log, n)} })

\* processJsonPath(obj, segments, currentPath, operation)
Earlier_processJsonPath(svc, seed, operation, obj, segments, currentPath, log, n) ==
  IF Not(obj) \/ Len(segments) = 0 THEN Walked(obj, Ok(Undefined), log, n)
  ELSE LET segment == Head(segments)
           remainingSegments == Tail(segments)
           newPath == IF currentPath # <<>> THEN currentPath \o <<Dot>> \o segment.key
                      ELSE segment.key
       IN
    IF segment.isArray THEN
      IF segment.isRootArray THEN
        IF IsArray(obj)
          THEN Earlier_ProcessItems(svc, seed, operation, obj, remainingSegments, <<>>, 1,
                                    log, n)
        ELSE Walked(obj, Ok(Undefined), Append(log, Step(currentPath, "warned")), n)
      ELSE IF IsArray(Get(obj, segment.key)) THEN The({
          Walked(Put(obj, segment.key, r.obj).v, r.res, r.log, r.n)
          : r \in {Earlier_ProcessItems(svc, seed, operation, Get(obj, segment.key),
                                        remainingSegments, newPath, 1, log, n)} })
      ELSE Walked(obj, Ok(Undefined), Append(log, Step(newPath, "warned")), n)
    ELSE IF Len(remainingSegments) = 0 /\ Get(obj, segment.key).t = "string"
      THEN Earlier_ProcessLeaf(svc, seed, operation, obj, segment.key,
                               Get(obj, segment.key), newPath, log, n)
    ELSE IF Len(remainingSegments) > 0 /\ IsObjectNotNull(Get(obj, segment.key)) THEN The({
        Walked(Put(obj, segment.key, r.obj).v, r.res, r.log, r.n)
        : r \in {Earlier_processJsonPath(svc, seed, operation, Get(obj, segment.key),
                                         remainingSegments, newPath, log, n)} })
    ELSE Walked(obj, Ok(Undefined), log, n)

\* processNestedFields(obj, paths, operation), from path i (from 1) on.
RECURSIVE Earlier_NestedFieldsLoop(_, _, _, _, _, _, _, _)
Earlier_NestedFieldsLoop(svc, seed, operation, obj, paths, i, log, n) ==
  IF i > Len(paths) THEN Walked(obj, Ok(Undefined), log, n)
  ELSE The({
    IF ~segments.ok THEN Walked(obj, segments, log, n)
    ELSE The({
      IF ~r.res.ok THEN r
      ELSE Earlier_NestedFieldsLoop(svc, seed, operation, r.obj, paths, i + 1, r.log, r.n)
      : r \in {Earlier_processJsonPath(svc, seed, operation, obj, segments.v, <<>>,
                                       log, n)} })
    : segments \in {parsePath(paths[i])} })

\* encryptField(entity, field, options)
Earlier_encryptField(svc, seed, ent, field, options, log, n) ==
  IF ~options.autoEncrypt \/ Get(ent, field).t \in {"null", "undefined"}
     \/ Get(ent, field) = Str(<<>>)
    THEN Walked(ent, Ok(Undefined), log, n)
  ELSE The({
    IF e.ok THEN Walked(Put(ent, field, e.v).v, Ok(Undefined),
                        Append(log, Step(field, "encrypted")), n + 1)
    ELSE Walked(ent, ThrowField("Failed to encrypt field", e.err),
                Append(log, Step(field, "failed")), n + 1)
    : e \in {ServiceEncrypt(svc, Str(String(Get(ent, field))), Draw(seed, n + 1))} })

\* generateHashField(entity, field, hashFieldName, encoding): the hash of
\* what the field holds when the method is called.
generateHashField(ent, field, hashFieldName, encoding) ==
  Put(ent, hashFieldName, Hash_normalizeSha256(Get(ent, field), encoding)).v

\* decryptField(entity, field, options)
Earlier_decryptField(svc, ent, field, options, log, n) ==
  IF Get(ent, field).t \in {"null", "undefined"} \/ Get(ent, field) = Str(<<>>)
    THEN Walked(ent, Ok(Undefined), log, n)
  ELSE The({
    IF d.ok THEN Walked(Put(ent, field, d.v).v, Ok(Undefined),
                        Append(log, Step(field, "decrypted")), n)
    ELSE Walked(ent, Ok(Undefined), Append(log, Step(field, "kept")), n)
    : d \in {ServiceDecrypt(svc, Str(String(Get(ent, field))))} })

\* encryptJsonField(entity, field, options)
Earlier_encryptJsonField(svc, seed, ent, field, options, log, n) ==
  IF ~options.autoEncrypt \/ Get(ent, field).t \in {"null", "undefined"}
    THEN Walked(ent, Ok(Undefined), log, n)
  ELSE IF IsObjectNotNull(Get(ent, field)) /\ HasNoKeys(Get(ent, field))
    THEN Walked(ent, Ok(Undefined), log, n)
  ELSE The({
    Walked(Put(ent, field, r.obj).v, RethrowJson(r.res), r.log, r.n)
    : r \in {Earlier_NestedFieldsLoop(svc, seed, "encrypt", Get(ent, field),
                                      options.paths, 1, log, n)} })

\* decryptJsonField(entity, field, options)
Earlier_decryptJsonField(svc, ent, field, options, log, n) ==
  IF Get(ent, field).t \in {"null", "undefined"} THEN Walked(ent, Ok(Undefined), log, n)
  ELSE IF IsObjectNotNull(Get(ent, field)) /\ HasNoKeys(Get(ent, field))
    THEN Walked(ent, Ok(Undefined), log, n)
  ELSE The({
    Walked(Put(ent, field, r.obj).v,
           IF IsJsonError(r.res) THEN r.res ELSE Ok(Undefined), r.log, r.n)
    : r \in {Earlier_NestedFieldsLoop(svc, 0, "decrypt", Get(ent, field), options.paths,
                                      1, log, n)} })

RECURSIVE Earlier_FieldsLoop(_, _, _, _, _, _, _, _)
Earlier_FieldsLoop(svc, seed, operation, ent, fields, i, log, n) ==
  IF i > Len(fields) THEN Walked(ent, Ok(Undefined), log, n)
  ELSE The({
    IF ~handleEncryptionError(r.res, operation).ok
      THEN Walked(r.obj, handleEncryptionError(r.res, operation), r.log, r.n)
    ELSE Earlier_FieldsLoop(svc, seed, operation, r.obj, fields, i + 1, r.log, r.n)
    : r \in {IF operation = "encrypt"
               THEN Earlier_encryptField(svc, seed, ent, fields[i].field,
                                         fields[i].options, log, n)
             ELSE Earlier_decryptField(svc, ent, fields[i].field, fields[i].options,
                                       log, n)} })

RECURSIVE Earlier_JsonFieldsLoop(_, _, _, _, _, _, _, _)
Earlier_JsonFieldsLoop(svc, seed, operation, ent, fields, i, log, n) ==
  IF i > Len(fields) THEN Walked(ent, Ok(Undefined), log, n)
  ELSE The({
    IF ~handleEncryptionError(r.res, operation).ok
      THEN Walked(r.obj, handleEncryptionError(r.res, operation), r.log, r.n)
    ELSE Earlier_JsonFieldsLoop(svc, seed, operation, r.obj, fields, i + 1, r.log, r.n)
    : r \in {IF operation = "encrypt"
               THEN Earlier_encryptJsonField(svc, seed, ent, fields[i].field,
                                             fields[i].options, log, n)
             ELSE Earlier_decryptJsonField(svc, ent, fields[i].field,
                                           fields[i].options, log, n)} })

Earlier_BothLoops(svc, seed, operation, ent, metadata) ==
  The({
    IF ~r.res.ok THEN r
    ELSE Earlier_JsonFieldsLoop(svc, seed, operation, r.obj,
                                metadata.encryptedJsonFields, 1, r.log, r.n)
    : r \in {Earlier_FieldsLoop(svc, seed, operation, ent, metadata.encryptedFields, 1,
                                <<>>, 0)} })

\* The loop over getHashFields(entity.constructor), from entry i (from 1)
\* on, which follows the two loops of the encryption.
RECURSIVE HashFieldsLoop(_, _, _)
HashFieldsLoop(ent, hashFields, i) ==
  IF i > Len(hashFields) THEN ent
  ELSE HashFieldsLoop(generateHashField(ent, hashFields[i].field,
                                        hashFields[i].hashFieldName,
                                        hashFields[i].encoding),
                      hashFields, i + 1)

\* The loops of a hook that encrypts, then the loop over the hash fields.
Earlier_EncryptThenHash(svc, seed, ent, metadata) ==
  The({
    IF ~r.res.ok THEN r
    ELSE Walked(HashFieldsLoop(r.obj, metadata.hashFields, 1), r.res, r.log, r.n)
    : r \in {Earlier_BothLoops(svc, seed, "encrypt", ent, metadata)} })

\* beforeInsert(event), afterLoad(entity), beforeUpdate(event)
Earlier_beforeInsert(svc, seed, ent, metadata) ==
  IF Not(ent) THEN Walked(ent, Ok(Undefined), <<>>, 0)
  ELSE IF svc.cls = NoService.cls
    THEN Walked(ent, ThrowField("Encryption service not initialized", <<>>), <<>>, 0)
  ELSE Earlier_EncryptThenHash(svc, seed, ent, metadata)

Earlier_afterLoad(svc, ent, metadata) ==
  IF Not(ent) \/ svc.cls = NoService.cls THEN Walked(ent, Ok(Undefined), <<>>, 0)
  ELSE Earlier_BothLoops(svc, 0, "decrypt", ent, metadata)

Earlier_beforeUpdate(svc, seed, ent, metadata) ==
  IF Not(ent) THEN Walked(ent, Ok(Undefined), <<>>, 0)
  ELSE Earlier_EncryptThenHash(svc, seed, ent, metadata)

\* ------------------------------------------------------------------------
\* Entities of the hooks
\* ------------------------------------------------------------------------
Key_email_sha256 == Key_email \o <<95, 115, 104, 97, 50, 53, 54>>

\* ' A', 'A': texts that normalisation changes.
LeafPadded == Str(<<32, 65>>)
LeafUpper == Str(<<65>>)

\* EncryptedField(options)(prototype, field): the entry pushed to
\* __encryptedFields, autoEncrypt and autoDecrypt true by default.
EncryptedField(fieldName, hashField) ==
  [field |-> fieldName,
   options |-> [autoEncrypt |-> TRUE, autoDecrypt |-> TRUE, hashField |-> hashField,
                hashEncoding |-> Undefined]]

\* HashField()(prototype, field): the entry pushed to __hashFields.
HashField(fieldName) ==
  [field |-> fieldName, hashFieldName |-> fieldName \o <<95, 115, 104, 97, 50, 53, 54>>,
   encoding |-> "hex"]

\* The names of the fields of a list of entries, as the sensitiveFields
\* option of TypeORMIntegration lists them for the class.
RECURSIVE FieldNames(_)
FieldNames(fields) ==
  IF fields = <<>> THEN <<>> ELSE <<Head(fields).field>> \o FieldNames(Tail(fields))

HookCase(ent, fields, jsonFields, hashFields) ==
  [entity |-> ent,
   meta |-> [encryptedFields |-> fields, encryptedJsonFields |-> jsonFields,
             hashFields |-> hashFields, sensitiveFields |-> FieldNames(fields)]]

\* @EncryptedField({ hashField: 'email_sha256' }) email; @EncryptedField()
\* name, which holds a plaintext with the shape of a ciphertext; a JSON
\* field with two addressed leaves.
CaseHashOption ==
  HookCase(Obj(<<<<Key_email, LeafPadded>>, <<Key_name, LeafLookalike>>,
                 <<Key_personalInfo, Obj(<<<<Key_name, LeafA>>, <<Key_city, LeafHan>>>>)>>>>),
           <<EncryptedField(Key_email, Str(Key_email_sha256)),
             EncryptedField(Key_name, Undefined)>>,
           <<JsonField(Key_personalInfo, <<Key_name, Key_city>>)>>,
           <<>>)

\* @EncryptedField() @HashField() email, with the column email_sha256.
CaseHashDecorator ==
  HookCase(Obj(<<<<Key_email, LeafUpper>>, <<Key_email_sha256, Null>>>>),
           <<EncryptedField(Key_email, Undefined)>>, <<>>, <<HashField(Key_email)>>)

\* An empty string in the first field and at the first addressed leaf.
CaseEmptyField ==
  HookCase(Obj(<<<<Key_email, LeafEmpty>>, <<Key_name, LeafA>>>>),
           <<EncryptedField(Key_email, Undefined), EncryptedField(Key_name, Undefined)>>,
           <<>>, <<>>)

CaseEmptyJsonLeaf ==
  HookCase(Obj(<<<<Key_name, LeafA>>,
                 <<Key_personalInfo, Obj(<<<<Key_name, LeafEmpty>>, <<Key_city, LeafB>>>>)>>>>),
           <<EncryptedField(Key_name, Undefined)>>,
           <<JsonField(Key_personalInfo, <<Key_name, Key_city>>)>>, <<>>)

\* The service of a subscriber, by the class of the subscriber.
ServiceClassOf(sub) ==
  IF sub \in {"EncryptionSubscriber", "EncryptionSubscriber with hash fields"}
    THEN "Encryption"
  ELSE "SensitiveData"

\* The keys that the scenarios give to the service, and an instance that
\* holds them.
ServiceKeys == <<CbcKey, Entries(<<<<V0001, RootKey1>>>>)>>
Keyed(class) ==
  IF class = "Encryption" THEN init(NewInstance, ServiceKeys[1], ServiceKeys[2]).self
  ELSE initSensitiveKey(NewInstance, ServiceKeys[1], ServiceKeys[2]).self

\* The ciphertext of 'b' under the keys of the service.
StoredCiphertext(class) ==
  The({ ServiceEncrypt(Service(class, keyed), LeafB, Draw(99, 1)).v
        : keyed \in {Keyed(class)} })

\* A row written before the migration in part: name is still plaintext,
\* phone is a ciphertext.
CaseLegacy(class) ==
  The({ HookCase(Obj(<<<<Key_name, LeafA>>, <<Key_phone, stored>>>>),
                 <<EncryptedField(Key_name, Undefined),
                   EncryptedField(Key_phone, Undefined)>>,
                 <<>>, <<>>)
        : stored \in {StoredCiphertext(class)} })

HookCases(class) ==
  {CaseHashOption, CaseHashDecorator, CaseEmptyField, CaseEmptyJsonLeaf, CaseLegacy(class)}

\* The entity of the guide of AdvancedEncryptionSubscriber: profile.items is
\* an array of two objects, and the path 'items[0].name' names the first.
Key_profile == <<112, 114, 111, 102, 105, 108, 101>>
Key_items == <<105, 116, 101, 109, 115>>
PathItems0Name == Dotted(Key_items \o <<LBracket, 48, RBracket>>, Key_name)

CaseIndexed ==
  HookCase(Obj(<<<<Key_profile,
                   Obj(<<<<Key_items, Arr(<<Obj(<<<<Key_name, LeafA>>>>),
                                            Obj(<<<<Key_name, LeafB>>>>)>>)>>>>)>>>>),
           <<>>, <<JsonField(Key_profile, <<PathItems0Name>>)>>, <<>>)

AdvancedCases == HookCases("SensitiveData") \cup {CaseIndexed}

\* ------------------------------------------------------------------------
\* Specification of the hooks: a subscriber of one of the classes, built
\* over a new service, is given an entity by TypeORM
\* ------------------------------------------------------------------------
InitSubscriberOver(sub, cases) ==
  /\ subscriber = sub
  /\ cls = ServiceClassOf(sub)
  /\ sensitiveDataKey = NewInstance.sensitiveDataKey
  /\ sensitiveRootKey = NewInstance.sensitiveRootKey
  /\ sensitiveRootKeyVersion = NewInstance.sensitiveRootKeyVersion
  /\ sensitiveRootKeyValue = NewInstance.sensitiveRootKeyValue
  /\ produced = NoneProduced
  /\ last = NoCall
  /\ \E c \in cases : entity = c.entity /\ meta = c.meta
  /\ journal = NoJournal
  /\ tasks = NoTasks
  /\ integration = NoIntegration

InitSubscriber(sub) == InitSubscriberOver(sub, HookCases(ServiceClassOf(sub)))

\* What a call of a hook leaves behind: the entity as the hook mutated it,
\* the outcome of the call, and what the call did.
Called(hook, r) ==
  /\ entity' = r.obj
  /\ last' = [op |-> hook, arg |-> Undefined, given |-> NoGiven, res |-> r.res]
  /\ journal' = [operation |-> hook, before |-> entity, log |-> r.log,
                 passes |-> journal.passes + 1]
  /\ UNCHANGED <<cls, sensitiveDataKey, sensitiveRootKey, sensitiveRootKeyVersion,
                 sensitiveRootKeyValue, produced, subscriber, meta, tasks, integration>>

\* The keys are given to the service before the first hook, or never.
KeyServiceCall == journal.passes = 0 /\ InitWith({ServiceKeys})

\* The random bytes of the encrypt calls of beforeInsert start at the byte
\* InsertSeed, those of beforeUpdate at UpdateSeed.
InsertSeed == 17
UpdateSeed == 170

\* EncryptionSubscriber: beforeInsert({ entity }), beforeUpdate({ entity }),
\* afterLoad(entity)
InitHooks == InitSubscriber("EncryptionSubscriber")

BeforeInsertCall ==
  /\ journal.passes < MaxPasses
  /\ \E r \in {beforeInsert(Service(cls, This), InsertSeed, entity, meta)} :
       Called("beforeInsert", r)

BeforeUpdateCall ==
  /\ journal.passes < MaxPasses
  /\ \E r \in {beforeUpdate(Service(cls, This), UpdateSeed, entity, meta)} :
       Called("beforeUpdate", r)

AfterLoadCall ==
  /\ journal.passes < MaxPasses
  /\ \E r \in {afterLoad(Service(cls, This), entity, meta)} : Called("afterLoad", r)

NextHooks == KeyServiceCall \/ BeforeInsertCall \/ BeforeUpdateCall \/ AfterLoadCall

SpecHooks == InitHooks /\ [][NextHooks]_vars

\* EncryptionSubscriber in the version that reads the @HashField metadata
InitEarlier == InitSubscriber("EncryptionSubscriber with hash fields")

EarlierBeforeInsertCall ==
  /\ journal.passes < MaxPasses
  /\ \E r \in {Earlier_beforeInsert(Service(cls, This), InsertSeed, entity, meta)} :
       Called("beforeInsert", r)

EarlierBeforeUpdateCall ==
  /\ journal.passes < MaxPasses
  /\ \E r \in {Earlier_beforeUpdate(Service(cls, This), UpdateSeed, entity, meta)} :
       Called("beforeUpdate", r)

EarlierAfterLoadCall ==
  /\ journal.passes < MaxPasses
  /\ \E r \in {Earlier_afterLoad(Service(cls, This), entity, meta)} :
       Called("afterLoad", r)

NextEarlier ==
  KeyServiceCall \/ EarlierBeforeInsertCall \/ EarlierBeforeUpdateCall
  \/ EarlierAfterLoadCall

SpecEarlier == InitEarlier /\ [][NextEarlier]_vars

\* AdvancedEncryptionSubscriber
InitAdvanced == InitSubscriberOver("AdvancedEncryptionSubscriber", AdvancedCases)

AdvancedBeforeInsertCall ==
  /\ journal.passes < MaxPasses
  /\ \E r \in {Advanced_beforeInsert(Service(cls, This), InsertSeed, entity, meta)} :
       Called("beforeInsert", r)

AdvancedBeforeUpdateCall ==
  /\ journal.passes < MaxPasses
  /\ \E r \in {Advanced_beforeUpdate(Service(cls, This), UpdateSeed, entity, meta)} :
       Called("beforeUpdate", r)

AdvancedAfterLoadCall ==
  /\ journal.passes < MaxPasses
  /\ \E r \in {Advanced_afterLoad(Service(cls, This), entity, meta)} :
       Called("afterLoad", r)

NextAdvanced ==
  KeyServiceCall \/ AdvancedBeforeInsertCall \/ AdvancedBeforeUpdateCall
  \/ AdvancedAfterLoadCall

SpecAdvanced == InitAdvanced /\ [][NextAdvanced]_vars

\* SensitiveDataSubscriber of TypeORMIntegration
InitBasic == InitSubscriber("SensitiveDataSubscriber")

BasicBeforeInsertCall ==
  /\ journal.passes < MaxPasses
  /\ \E r \in {Basic_beforeInsert(Service(cls, This), InsertSeed, entity, meta)} :
       Called("beforeInsert", r)

BasicBeforeUpdateCall ==
  /\ journal.passes < MaxPasses
  /\ \E r \in {Basic_beforeUpdate(Service(cls, This), UpdateSeed, entity, meta)} :
       Called("beforeUpdate", r)

BasicAfterLoadCall ==
  /\ journal.passes < MaxPasses
  /\ \E r \in {Basic_afterLoad(Service(cls, This), entity, meta)} :
       Called("afterLoad", r)

NextBasic ==
  KeyServiceCall \/ BasicBeforeInsertCall \/ BasicBeforeUpdateCall \/ BasicAfterLoadCall

SpecBasic == InitBasic /\ [][NextBasic]_vars

\* ------------------------------------------------------------------------
\* Properties of the hooks of EncryptionSubscriber
\* ------------------------------------------------------------------------
\* The latest call was a hook that encrypts / the hook that decrypts.
EncryptHookCalled == last.op \in {"beforeInsert", "beforeUpdate"}
DecryptHookCalled == last.op = "afterLoad"

\* The string leaves that the paths of the JSON fields address in the
\* entity that the latest hook was given: the number of the field in the
\* metadata and the path of the leaf in the document of the field.
HookLeaves ==
  UNION {
    UNION {
      {<<k, at>> : at \in Addressed(Get(journal.before, meta.encryptedJsonFields[k].field),
                                    parsePath(meta.encryptedJsonFields[k].options.paths[i]).v,
                                    <<>>)}
      : i \in {j \in 1..Len(meta.encryptedJsonFields[k].options.paths) :
                 parsePath(meta.encryptedJsonFields[k].options.paths[j]).ok}}
    : k \in 1..Len(meta.encryptedJsonFields)}

\* The value of such a leaf before and after the hook.
HookLeafBefore(l) ==
  LeafAt(Get(journal.before, meta.encryptedJsonFields[l[1]].field), l[2])
HookLeafAfter(l) == LeafAt(Get(entity, meta.encryptedJsonFields[l[1]].field), l[2])

\* encrypt refuses the leaf: the guard lets it through, and the service has
\* no keys or the leaf is empty.
Refused(value) ==
  /\ ~isAlreadyEncrypted(value.s)
  /\ (NeverInitialised \/ value.s = <<>>)

\* C14: in encrypt mode a failing transform of an addressed string leaf ends
\* the walk and makes beforeInsert / beforeUpdate raise: a hook that was
\* given a leaf that encrypt refuses does not return; where a transform
\* failed, it is the last thing the hook did; and after a hook that returns,
\* no addressed string leaf is left as it was unless the guard took it for a
\* ciphertext.
C14_EncryptFailurePropagates ==
  EncryptHookCalled =>
    /\ (\E l \in HookLeaves : Refused(HookLeafBefore(l))) => ~last.res.ok
    /\ \A i \in 1..Len(journal.log) :
         journal.log[i].act = "failed" => ~last.res.ok /\ i = Len(journal.log)
    /\ last.res.ok =>
         \A l \in HookLeaves :
           \/ isAlreadyEncrypted(HookLeafBefore(l).s) /\ HookLeafAfter(l) = HookLeafBefore(l)
           \/ /\ HookLeafAfter(l) # HookLeafBefore(l)
              /\ DecryptNow(HookLeafAfter(l)) = Ok(HookLeafBefore(l))

\* beforeInsert with keys on an entity whose first addressed leaf is empty:
\* the plain field is encrypted, the transform of the leaf fails, the hook
\* raises the JsonEncryptionError and the document is as it was.
C14_Witness ==
  /\ last.op = "beforeInsert" /\ InitDone
  /\ journal.before = CaseEmptyJsonLeaf.entity
  /\ IsJsonError(last.res)
  /\ journal.log = <<Step(Key_name, "encrypted"), Step(Key_name, "failed")>>
  /\ Get(entity, Key_personalInfo) = Get(journal.before, Key_personalInfo)

\* ------------------------------------------------------------------------
\* Properties of the walk in decrypt mode
\* ------------------------------------------------------------------------
\* C15: a walk in decrypt mode never raises, and it processes every string
\* leaf that its paths address, whatever happened at the leaves before it:
\* a leaf that decrypt accepts holds the plaintext, a leaf that decrypt
\* refuses holds what it held.
C15_DecryptNeverRaises ==
  (last.op = "processNestedFields" /\ journal.operation = "decrypt") =>
    /\ last.res.ok
    /\ \A at \in AddressedLeaves :
         /\ Cardinality({i \in LeafSteps : journal.log[i].path = at}) = 1
         /\ \E d \in {DecryptNow(LeafAt(DocBefore, at))} :
              LeafAt(DocAfter, at) = IF d.ok THEN d.v ELSE LeafAt(DocBefore, at)

\* A document whose first addressed leaf is a plaintext that decrypt
\* refuses and whose second is a ciphertext: the first leaf is kept, the
\* second is decrypted after it.
C15_Witness ==
  /\ last.op = "processNestedFields" /\ journal.operation = "decrypt" /\ InitDone
  /\ meta = CaseLookalike.meta
  /\ journal.log = <<Step(Key_name, "kept"), Step(Key_city, "decrypted")>>
  /\ ~DecryptNow(LeafAt(DocBefore, Key_name)).ok
  /\ LeafAt(DocAfter, Key_name) = LeafLookalike
  /\ LeafAt(DocBefore, Key_city) # LeafA /\ LeafAt(DocAfter, Key_city) = LeafA

\* ------------------------------------------------------------------------
\* Properties of the guard against a second encryption
\* ------------------------------------------------------------------------
\* The plain fields of the metadata that hold a string in the entity that
\* the latest hook was given, and their values before and after the hook.
StringFields ==
  {k \in 1..Len(meta.encryptedFields) :
     Get(journal.before, meta.encryptedFields[k].field).t = "string"}
FieldBefore(k) == Get(journal.before, meta.encryptedFields[k].field)
FieldAfter(k) == Get(entity, meta.encryptedFields[k].field)

\* What the encrypt pass has made of a string: a value that the guard took
\* for a ciphertext is as it was; any other value has become a string that
\* the guard takes for a ciphertext and that decrypts to the value.
PassedOnce(old, new) ==
  IF isAlreadyEncrypted(old.s) THEN new = old
  ELSE /\ new.t = "string" /\ isAlreadyEncrypted(new.s)
       /\ DecryptNow(new) = Ok(old)

\* The entity that the latest hook was given holds an empty string in a
\* plain field or at an addressed leaf.
HoldsEmpty ==
  \/ \E k \in StringFields : FieldBefore(k) = Str(<<>>)
  \/ \E l \in HookLeaves : HookLeafBefore(l) = Str(<<>>)

\* The guard on every string but the empty one: beforeInsert and
\* beforeUpdate of a service with keys return, every string they were to
\* encrypt has passed the encryption once, however often the hooks ran.
IdempotentSkipOfNonEmpty ==
  (EncryptHookCalled /\ InitDone /\ ~HoldsEmpty) =>
    /\ last.res.ok
    /\ \A k \in StringFields : PassedOnce(FieldBefore(k), FieldAfter(k))
    /\ \A l \in HookLeaves : PassedOnce(HookLeafBefore(l), HookLeafAfter(l))

\* C16: for every string s that is not null, the guard takes encrypt(s) for
\* a ciphertext and a second encrypt pass leaves it alone: beforeInsert and
\* beforeUpdate of a service with keys return, after them every string
\* field and addressed string leaf is a ciphertext of what it held before the
\* first pass, and a value that was one already is unchanged.
C16_IdempotentSkip ==
  (EncryptHookCalled /\ InitDone) =>
    /\ last.res.ok
    /\ \A k \in StringFields : PassedOnce(FieldBefore(k), FieldAfter(k))
    /\ \A l \in HookLeaves : PassedOnce(HookLeafBefore(l), HookLeafAfter(l))

\* ------------------------------------------------------------------------
\* Properties of afterLoad over data that was never encrypted
\* ------------------------------------------------------------------------
\* The names of the fields that the subscriber of the scenario decrypts in
\* afterLoad: the list configured for the class of the entity in
\* SensitiveDataSubscriber, the decorated properties in the others.
ConfiguredFields ==
  IF subscriber = "SensitiveDataSubscriber" THEN meta.sensitiveFields
  ELSE FieldNames(meta.encryptedFields)

\* What afterLoad is to make of a non-empty string: the plaintext where the
\* service decrypts it, the string itself where it does not.
DecryptedOrKept(old) ==
  The({ IF d.ok /\ ~Falsy(d.v) THEN d.v ELSE old : d \in {DecryptNow(old)} })

\* The value of a configured field cannot be decrypted by the service.
Undecryptable(value) ==
  /\ value.t = "string" /\ value.s # <<>>
  /\ DecryptedOrKept(value) = value

\* C17: afterLoad returns, a configured field whose value cannot be
\* decrypted keeps its value, and every other configured field that holds a
\* non-empty string holds the plaintext afterwards.
C17_AfterLoadKeepsUndecryptable ==
  DecryptHookCalled =>
    /\ last.res.ok
    /\ \A i \in 1..Len(ConfiguredFields) :
         \E old \in {Get(journal.before, ConfiguredFields[i])} :
           (old.t = "string" /\ old.s # <<>>) =>
             Get(entity, ConfiguredFields[i]) = DecryptedOrKept(old)

\* ------------------------------------------------------------------------
\* Properties of an encrypt walk followed by a decrypt walk
\* ------------------------------------------------------------------------
\* The step is the first walk over the document of the scenario, in encrypt
\* mode, by a service with keys.
FirstEncryptWalk ==
  /\ InitDone /\ journal.passes = 0
  /\ journal'.passes = 1 /\ journal'.operation = "encrypt"

\* The step is a decrypt walk that follows the first walk, which was an
\* encrypt walk that returned.
DecryptWalkAfterEncrypt ==
  /\ InitDone /\ journal.passes = 1 /\ journal.operation = "encrypt" /\ WalkReturned
  /\ journal'.passes = 2 /\ journal'.operation = "decrypt"

\* After the first encrypt walk every addressed leaf differs from what it
\* was; after the decrypt walk that follows, every addressed leaf is what
\* it was before the two walks.
RoundTripSteps ==
  /\ FirstEncryptWalk =>
       /\ last'.res.ok
       /\ \A at \in AddressedLeaves' : LeafAt(DocAfter', at) # LeafAt(DocBefore', at)
  /\ DecryptWalkAfterEncrypt =>
       /\ last'.res.ok
       /\ \A at \in AddressedLeaves : LeafAt(DocAfter', at) = LeafAt(DocBefore, at)

\* No addressed leaf of the document is empty or has the shape of a
\* ciphertext.
OrdinaryLeaves(doc) ==
  \A i \in {j \in 1..Len(WalkedPaths) : parsePath(WalkedPaths[j]).ok} :
    \A at \in Addressed(doc, parsePath(WalkedPaths[i]).v, <<>>) :
      LeafAt(doc, at).s # <<>> /\ ~isAlreadyEncrypted(LeafAt(doc, at).s)

\* The round trip of the walks over documents whose addressed leaves are
\* neither empty nor shaped like a ciphertext.
WalkRoundTripOfOrdinaryLeaves ==
  [][(IF journal.passes = 0 THEN OrdinaryLeaves(Get(entity, WalkedField))
      ELSE OrdinaryLeaves(DocBefore)) => RoundTripSteps]_vars

\* C18: for a document whose addressed leaves are plaintext strings, the
\* encrypt walk of a service with keys returns and leaves every addressed
\* leaf different from its original value, and the decrypt walk with the
\* same paths that follows it restores every addressed leaf.
C18_WalkRoundTrip == [][RoundTripSteps]_vars

\* ------------------------------------------------------------------------
\* Specification of the hash utility: the static methods of Hash and of its
\* predecessor HashUtil are called with a text
\* ------------------------------------------------------------------------
\* The texts: 'A', 'a' and the space, up to MaxHashLen code units, and the
\* two absent values.
MaxHashLen == 2
HashChars == {<<65>>, <<97>>, <<32>>}

RECURSIVE HashTextsUpTo(_)
HashTextsUpTo(n) ==
  IF n = 0 THEN {<<>>}
  ELSE LET shorter == HashTextsUpTo(n - 1)
       IN shorter \cup {t \o c : t \in shorter, c \in HashChars}

HashTexts == HashTextsUpTo(MaxHashLen)
HashInputs == {Null, Undefined} \cup {Str(t) : t \in HashTexts}

\* The values of crypto.BinaryToTextEncoding that the library documents;
\* a call without the argument is a call with 'hex'.
HashEncodings == {"hex", "base64"}

InitHash ==
  /\ cls = "Encryption"
  /\ sensitiveDataKey = NewInstance.sensitiveDataKey
  /\ sensitiveRootKey = NewInstance.sensitiveRootKey
  /\ sensitiveRootKeyVersion = NewInstance.sensitiveRootKeyVersion
  /\ sensitiveRootKeyValue = NewInstance.sensitiveRootKeyValue
  /\ produced = NoneProduced
  /\ last = NoCall
  /\ subscriber = NoSubscriber
  /\ entity \in HashInputs
  /\ meta = NoMeta
  /\ journal = NoJournal
  /\ tasks = NoTasks
  /\ integration = NoIntegration

\* A static method was called with the text and returned v.
HashCalled(op, args, v) ==
  /\ last' = [op |-> op, arg |-> args, given |-> NoGiven, res |-> Ok(v)]
  /\ UNCHANGED <<cls, sensitiveDataKey, sensitiveRootKey, sensitiveRootKeyVersion,
                 sensitiveRootKeyValue, produced, subscriber, entity, meta, journal, tasks, integration>>

HashSha256Call ==
  \E encoding \in HashEncodings :
    HashCalled("Hash.sha256", <<entity, encoding>>, Hash_sha256(entity, encoding))

HashNormalizeCall == HashCalled("Hash.normalize", <<entity>>, Hash_normalize(entity))

HashNormalizeSha256Call ==
  \E encoding \in HashEncodings :
    HashCalled("Hash.normalizeSha256", <<entity, encoding>>,
               Hash_normalizeSha256(entity, encoding))

HashUtilSha256Call ==
  \E encoding \in HashEncodings :
    HashCalled("HashUtil.sha256", <<entity, encoding>>, HashUtil_sha256(entity, encoding))

NextHash ==
  HashSha256Call \/ HashNormalizeCall \/ HashNormalizeSha256Call \/ HashUtilSha256Call

SpecHash == InitHash /\ [][NextHash]_vars

\* ------------------------------------------------------------------------
\* Properties of the hash utility
\* ------------------------------------------------------------------------
\* The other texts that differ from the text only in the case of letters
\* and in white space around it.
Variants(text) ==
  {u \in HashTexts : u # text /\ Trim(ToLowerCase(u)) = Trim(ToLowerCase(text))}

\* HashUtil.sha256 is what Hash.normalizeSha256 is now.
HashUtilNormalizes ==
  last.op = "HashUtil.sha256" =>
    last.res.v = Hash_normalizeSha256(last.arg[1], last.arg[2])

\* C19: Hash.sha256 of a string is the digest of the SHA-256 of exactly that
\* string, so it differs from the hash of every other text that differs
\* only in case or surrounding white space; Hash.normalizeSha256 of a string
\* is Hash.sha256 of the lower-cased and trimmed string, so it is the same
\* for all these texts.
C19_RawAndNormalizedHash ==
  /\ (last.op = "Hash.sha256" /\ last.arg[1].t = "string") =>
       /\ last.res.v = Str(Digest(last.arg[1].s, last.arg[2]))
       /\ \A u \in Variants(last.arg[1].s) :
            Hash_sha256(Str(u), last.arg[2]) # last.res.v
  /\ (last.op = "Hash.normalizeSha256" /\ last.arg[1].t = "string") =>
       /\ last.res.v = Hash_sha256(Str(Trim(ToLowerCase(last.arg[1].s))), last.arg[2])
       /\ \A u \in Variants(last.arg[1].s) :
            Hash_normalizeSha256(Str(u), last.arg[2]) = last.res.v

\* Hash.normalizeSha256(' A') is the hash of 'a', which the raw hash of
\* ' A' is not.
C19_Witness ==
  /\ last.op = "Hash.normalizeSha256" /\ last.arg = <<LeafPadded, "hex">>
  /\ <<97>> \in Variants(LeafPadded.s)
  /\ last.res.v = Str(HexEncode(Sha256Bytes(<<97>>)))
  /\ last.res.v # Hash_sha256(LeafPadded, "hex")

\* ------------------------------------------------------------------------
\* Properties of the hash fields
\* ------------------------------------------------------------------------
\* The plain fields whose options name a hash field, where the subscriber
\* is the one that reads the option.
OptionHashed ==
  {k \in 1..Len(meta.encryptedFields) :
     /\ subscriber = "EncryptionSubscriber"
     /\ meta.encryptedFields[k].options.hashField.t = "string"}

\* The @HashField entries on a property that is an @EncryptedField as well.
DecoratorHashed ==
  {h \in 1..Len(meta.hashFields) :
     \E k \in 1..Len(meta.encryptedFields) :
       meta.encryptedFields[k].field = meta.hashFields[h].field}

\* The hook was given a plaintext string in the field.
PlainBefore(field) ==
  /\ Get(journal.before, field).t = "string"
  /\ ~isAlreadyEncrypted(Get(journal.before, field).s)

\* The hash field of a field given by the option holds the normalised hash
\* of the plaintext after an encrypt hook that returned.
HashOptionBeforeEncryption ==
  (EncryptHookCalled /\ last.res.ok) =>
    \A k \in OptionHashed :
      PlainBefore(meta.encryptedFields[k].field) =>
        Get(entity, meta.encryptedFields[k].options.hashField.s)
          = Hash_normalizeSha256(FieldBefore(k),
                                 EncodingOr(meta.encryptedFields[k].options.hashEncoding))

\* The same of the hash field of a @HashField decorator.
HashDecoratorBeforeEncryption ==
  (EncryptHookCalled /\ last.res.ok) =>
    \A h \in DecoratorHashed :
      PlainBefore(meta.hashFields[h].field) =>
        Get(entity, meta.hashFields[h].hashFieldName)
          = Hash_normalizeSha256(Get(journal.before, meta.hashFields[h].field),
                                 meta.hashFields[h].encoding)

\* C20: after beforeInsert and beforeUpdate the hash field of an encrypted
\* field, configured by the hashField option or by @HashField, holds the
\* normalised SHA-256 of the plaintext that the hook was given, never that
\* of the ciphertext.
C20_HashOfPlaintext == HashOptionBeforeEncryption /\ HashDecoratorBeforeEncryption

\* What the version with getHashFields writes: the hash of the ciphertext.
HashOfCiphertext ==
  /\ EncryptHookCalled /\ last.res.ok
  /\ \E h \in DecoratorHashed :
       /\ PlainBefore(meta.hashFields[h].field)
       /\ isAlreadyEncrypted(Get(entity, meta.hashFields[h].field).s)
       /\ Get(entity, meta.hashFields[h].hashFieldName)
            = Hash_normalizeSha256(Get(entity, meta.hashFields[h].field),
                                   meta.hashFields[h].encoding)

\* ------------------------------------------------------------------------
\* Properties of a path with a numeric index
\* ------------------------------------------------------------------------
\* The element i (from 0) of profile.items of an entity.
ItemOf(ent, i) == Get(Get(ent, Key_profile), Key_items).items[i + 1]

\* C21: with AdvancedEncryptionSubscriber and the path 'items[0].name',
\* beforeInsert and beforeUpdate of a service with keys return and leave in
\* the name of element 0 a ciphertext of what it held, afterLoad replaces
\* such a ciphertext by its plaintext, and element 1 is as it was after
\* every hook.
C21_IndexedPathAddressesOneElement ==
  (meta = CaseIndexed.meta /\ InitDone /\ journal.passes > 0) =>
    /\ last.res.ok
    /\ ItemOf(entity, 1) = ItemOf(journal.before, 1)
    /\ EncryptHookCalled =>
         PassedOnce(Get(ItemOf(journal.before, 0), Key_name),
                    Get(ItemOf(entity, 0), Key_name))
    /\ DecryptHookCalled =>
         Get(ItemOf(entity, 0), Key_name)
           = DecryptedOrKept(Get(ItemOf(journal.before, 0), Key_name))

\* What the subscriber does with the path: the segment '0' is an array
\* segment, element 0 is no array, and the branch is given up with a
\* warning.
IndexedPathGivenUp ==
  /\ meta = CaseIndexed.meta /\ InitDone /\ last.op = "beforeInsert" /\ last.res.ok
  /\ entity = journal.before
  /\ journal.log = <<Step(Key_items \o <<Dot, 48>>, "warned")>>

\* ------------------------------------------------------------------------
\* Specification of the static field: EncryptionSubscriber instances are
\* constructed over services of their own, and TypeORM calls their hooks
\* ------------------------------------------------------------------------
\* At most MaxSubscribers instances are constructed.
MaxSubscribers == 2

\* Two services with keys of their own: the root key of version 0001 of the
\* one is RootKey1, that of the other RootKey2.
ServiceA == The({ Service("Encryption", keyed) : keyed \in {Keyed("Encryption")} })
ServiceB ==
  The({ Service("Encryption", r.self)
        : r \in {init(NewInstance, CbcKey, Entries(<<<<V0001, RootKey2>>>>))} })

\* What a constructor is given as encryptionService; NoService is the call
\* without the argument.
GivenServices == {ServiceA, ServiceB, NoService}

\* private static encryptionService, and the argument that each instance
\* was constructed with.
NoInstances == [encryptionService |-> NoService, given |-> <<>>]

InitStatic ==
  /\ subscriber = NoInstances
  /\ cls = "Encryption"
  /\ sensitiveDataKey = NewInstance.sensitiveDataKey
  /\ sensitiveRootKey = NewInstance.sensitiveRootKey
  /\ sensitiveRootKeyVersion = NewInstance.sensitiveRootKeyVersion
  /\ sensitiveRootKeyValue = NewInstance.sensitiveRootKeyValue
  /\ produced = NoneProduced
  /\ last = NoCall
  /\ \E c \in {CaseLegacy("Encryption")} : entity = c.entity /\ meta = c.meta
  /\ journal = NoJournal
  /\ tasks = NoTasks
  /\ integration = NoIntegration

\* new EncryptionSubscriber(encryptionService, logger)
ConstructCall ==
  /\ Len(subscriber.given) < MaxSubscribers
  /\ \E encryptionService \in GivenServices :
       subscriber' =
         [encryptionService |->
            IF encryptionService.cls # NoService.cls THEN encryptionService
            ELSE subscriber.encryptionService,
          given |-> Append(subscriber.given, encryptionService)]
  /\ UNCHANGED <<cls, sensitiveDataKey, sensitiveRootKey, sensitiveRootKeyVersion,
                 sensitiveRootKeyValue, produced, last, entity, meta, journal, tasks, integration>>

\* A hook of instance i returned r.
InstanceCalled(i, hook, r) ==
  /\ entity' = r.obj
  /\ last' = [op |-> hook, arg |-> i, given |-> NoGiven, res |-> r.res]
  /\ journal' = [operation |-> hook, before |-> entity, log |-> r.log,
                 passes |-> journal.passes + 1]
  /\ UNCHANGED <<cls, sensitiveDataKey, sensitiveRootKey, sensitiveRootKeyVersion,
                 sensitiveRootKeyValue, produced, subscriber, meta, tasks, integration>>

InstanceBeforeInsertCall ==
  /\ journal.passes < MaxPasses
  /\ \E i \in 1..Len(subscriber.given) :
       \E r \in {beforeInsert(subscriber.encryptionService, InsertSeed, entity, meta)} :
         InstanceCalled(i, "beforeInsert", r)

InstanceAfterLoadCall ==
  /\ journal.passes < MaxPasses
  /\ \E i \in 1..Len(subscriber.given) :
       \E r \in {afterLoad(subscriber.encryptionService, entity, meta)} :
         InstanceCalled(i, "afterLoad", r)

NextStatic == ConstructCall \/ InstanceBeforeInsertCall \/ InstanceAfterLoadCall

SpecStatic == InitStatic /\ [][NextStatic]_vars

\* ------------------------------------------------------------------------
\* Properties of the instances
\* ------------------------------------------------------------------------
\* What the latest hook returns and leaves in the entity when it works
\* with the service svc.
HookWith(svc) ==
  IF last.op = "beforeInsert" THEN beforeInsert(svc, InsertSeed, journal.before, meta)
  ELSE afterLoad(svc, journal.before, meta)

\* C22: a hook of an instance that was constructed with a service works
\* with that service, whatever other instances were constructed since: the
\* entity and the outcome are those that the service of the instance gives.
C22_OwnService ==
  (last.op \in {"beforeInsert", "afterLoad"}
     /\ subscriber.given[last.arg].cls # NoService.cls) =>
    \E r \in {HookWith(subscriber.given[last.arg])} :
      entity = r.obj /\ last.res = r.res

\* The first instance was constructed with ServiceA, the second with
\* ServiceB, and beforeInsert of the first has encrypted with ServiceB: its
\* ciphertext is one that ServiceA refuses.
StaticServiceReplaced ==
  /\ subscriber.given = <<ServiceA, ServiceB>>
  /\ last.op = "beforeInsert" /\ last.arg = 1 /\ last.res.ok
  /\ journal.passes = 1
  /\ ServiceDecrypt(ServiceB, Get(entity, Key_name)) = Ok(LeafA)
  /\ ~ServiceDecrypt(ServiceA, Get(entity, Key_name)).ok

\* ------------------------------------------------------------------------
\* Specification of the path parser: parsePath is called with a path
\* ------------------------------------------------------------------------
\* The paths: every string of up to MaxPathLen characters over 'a', '[',
\* ']' and '.', the paths of the documentation, and the paths written from
\* up to two keys, each with or without '[]', with or without the root
\* array marker in front.
MaxPathLen == 4
PathChars == {<<97>>, <<LBracket>>, <<RBracket>>, <<Dot>>}

RECURSIVE PathsUpTo(_)
PathsUpTo(n) ==
  IF n = 0 THEN {<<>>}
  ELSE LET shorter == PathsUpTo(n - 1)
       IN shorter \cup {p \o c : p \in shorter, c \in PathChars}

Key_street == <<115, 116, 114, 101, 101, 116>>
PathName == Key_name
PathContactEmail == Dotted(Key_contactInfo, Key_email)
PathRootStreet == Dotted(Each(<<>>), Key_street)
PathAddressesContactsEmail == Dotted(Each(Key_addresses), Dotted(Each(Key_contacts), Key_email))
DocumentedPaths ==
  {PathName, PathContactEmail, PathRootStreet, PathAddressesContactsEmail}

\* A key with or without '[]' behind it.
Part(key, isArray) == [key |-> key, isArray |-> isArray]
Parts == {Part(k, a) : k \in {<<97>>, <<98, 99>>}, a \in BOOLEAN}
PartLists == {<<>>} \cup {<<x>> : x \in Parts} \cup {<<x, y>> : x \in Parts, y \in Parts}

\* The path that names the parts: key or key[] joined by '.', behind '[]'
\* where the document is an array.
RECURSIVE Written(_, _)
Written(parts, rooted) ==
  IF rooted THEN
    IF parts = <<>> THEN <<LBracket, RBracket>>
    ELSE <<LBracket, RBracket, Dot>> \o Written(parts, FALSE)
  ELSE IF parts = <<>> THEN <<>>
  ELSE (IF Head(parts).isArray THEN Each(Head(parts).key) ELSE Head(parts).key)
       \o (IF Len(parts) > 1 THEN <<Dot>> \o Written(Tail(parts), FALSE) ELSE <<>>)

WrittenPaths == {Written(parts, rooted) : parts \in PartLists, rooted \in BOOLEAN}

PathInputs == PathsUpTo(MaxPathLen) \cup DocumentedPaths \cup WrittenPaths

InitParse ==
  /\ cls = "Encryption"
  /\ sensitiveDataKey = NewInstance.sensitiveDataKey
  /\ sensitiveRootKey = NewInstance.sensitiveRootKey
  /\ sensitiveRootKeyVersion = NewInstance.sensitiveRootKeyVersion
  /\ sensitiveRootKeyValue = NewInstance.sensitiveRootKeyValue
  /\ produced = NoneProduced
  /\ last = NoCall
  /\ subscriber = NoSubscriber
  /\ entity \in {Str(p) : p \in PathInputs}
  /\ meta = NoMeta
  /\ journal = NoJournal
  /\ tasks = NoTasks
  /\ integration = NoIntegration

\* parsePath(path) of src/typeorm/json
ParsePathCall ==
  /\ last' = [op |-> "parsePath", arg |-> entity.s, given |-> NoGiven,
              res |-> parsePath(entity.s)]
  /\ UNCHANGED <<cls, sensitiveDataKey, sensitiveRootKey, sensitiveRootKeyVersion,
                 sensitiveRootKeyValue, produced, subscriber, entity, meta, journal, tasks, integration>>

\* parsePath(path) of the module of AdvancedEncryptionSubscriber, which
\* never throws
AdvancedParsePathCall ==
  /\ last' = [op |-> "Advanced.parsePath", arg |-> entity.s, given |-> NoGiven,
              res |-> Ok(Advanced_parsePath(entity.s))]
  /\ UNCHANGED <<cls, sensitiveDataKey, sensitiveRootKey, sensitiveRootKeyVersion,
                 sensitiveRootKeyValue, produced, subscriber, entity, meta, journal, tasks, integration>>

NextParse == ParsePathCall \/ AdvancedParsePathCall

SpecParse == InitParse /\ [][NextParse]_vars

\* ------------------------------------------------------------------------
\* Properties of the path parser
\* ------------------------------------------------------------------------
\* The segments that the parts of a path stand for.
SegmentsOf(parts, rooted) ==
  (IF rooted THEN <<Segment(<<>>, TRUE, TRUE)>> ELSE <<>>)
  \o [i \in 1..Len(parts) |-> Segment(parts[i].key, parts[i].isArray, FALSE)]

\* Every '[' of the path is closed by a ']' before the next '['.
SimpleBrackets(path) ==
  \A i \in 1..Len(path) :
    path[i] = LBracket =>
      \E j \in (i + 1)..Len(path) :
        /\ path[j] = RBracket
        /\ \A k \in (i + 1)..(j - 1) : path[k] \notin {LBracket, RBracket}

\* The character at i of the path stands between a '[' and its ']'.
InBrackets(path, i) ==
  \E o \in 1..(i - 1) :
    path[o] = LBracket /\ \A k \in (o + 1)..i : path[k] # RBracket

\* The path without what stands between its brackets.
WithoutIndexes(path) ==
  LET piece(i) == IF InBrackets(path, i) THEN <<>> ELSE <<path[i]>>
  IN ConcatRange(piece, 1, Len(path))

\* C23: parsePath gives the segments in the order of the path: the four
\* paths of the documentation give the segments written there; a path
\* written from keys, '[]' behind a key and '.' between the parts gives one
\* segment for each part, an array segment where '[]' follows the key,
\* behind the root array marker where the path starts with '[]'; and what
\* stands between the brackets behind a key, a '.' included, separates
\* nothing.
C23_ParseSegments ==
  last.op = "parsePath" =>
    /\ last.arg = PathName => last.res = Ok(<<Segment(Key_name, FALSE, FALSE)>>)
    /\ last.arg = PathContactEmail =>
         last.res = Ok(<<Segment(Key_contactInfo, FALSE, FALSE),
                         Segment(Key_email, FALSE, FALSE)>>)
    /\ last.arg = PathRootStreet =>
         last.res = Ok(<<Segment(<<>>, TRUE, TRUE), Segment(Key_street, FALSE, FALSE)>>)
    /\ last.arg = PathAddressesContactsEmail =>
         last.res = Ok(<<Segment(Key_addresses, TRUE, FALSE),
                         Segment(Key_contacts, TRUE, FALSE),
                         Segment(Key_email, FALSE, FALSE)>>)
    /\ \A parts \in PartLists : \A rooted \in BOOLEAN :
         last.arg = Written(parts, rooted) => last.res = Ok(SegmentsOf(parts, rooted))
    /\ (SimpleBrackets(last.arg) /\ ~StartsWith(last.arg, <<LBracket>>)) =>
         last.res = parsePath(WithoutIndexes(last.arg))

\* parsePath('[].street') returned the root array marker and the key.
C23_Witness ==
  /\ last.op = "parsePath" /\ last.arg = PathRootStreet
  /\ last.res.ok /\ Len(last.res.v) = 2
  /\ last.res.v[1].isRootArray /\ last.res.v[2].key = Key_street

\* C24: parsePath throws or returns segments of which only the first may be
\* the root array marker and of which every other has a key that is not
\* empty.
C24_SegmentsInvariant ==
  last.op = "parsePath" =>
    \/ ~last.res.ok
    \/ \A i \in 1..Len(last.res.v) :
         /\ last.res.v[i].isRootArray => i = 1
         /\ ~last.res.v[i].isRootArray => last.res.v[i].key # <<>>

\* parsePath('[][]') threw: the second '[' makes an array segment with an
\* empty key of the root array marker.
C24_Witness ==
  /\ last.op = "parsePath" /\ last.arg = <<LBracket, RBracket, LBracket, RBracket>>
  /\ ~last.res.ok /\ last.res.err = <<"Invalid path format">>

\* ------------------------------------------------------------------------
\* The guard of the encrypt pass over texts built from fields
\* ------------------------------------------------------------------------

\* The greatest number of '^'-separated fields of a text.
MaxFields == 4

\* The fields the texts are built from: an empty one, a version of four
\* characters, and a single character.
GuardFields == {<<>>, V0001, <<120>>}

RECURSIVE FieldListsUpTo(_)
FieldListsUpTo(n) ==
  IF n = 0 THEN {<<>>}
  ELSE FieldListsUpTo(n - 1)
       \cup {Append(fs, f) : fs \in {l \in FieldListsUpTo(n - 1) : Len(l) = n - 1},
                             f \in GuardFields}

\* Texts of one to MaxFields fields, the version "0002" and a version of
\* five characters in both shapes, and texts of white space.
GuardTexts ==
  {Join(fs) : fs \in FieldListsUpTo(MaxFields) \ {<<>>}}
  \cup {Join(<<V0002, <<120>>>>), Join(<<V0002, <<120>>, <<120>>, <<120>>>>),
        Join(<<V00011, <<120>>>>), Join(<<V00011, <<120>>, <<120>>, <<120>>>>),
        <<32>>, <<32, 32>>}

\* An entity with one @EncryptedField() column holding the text.
InitGuard ==
  /\ subscriber = "EncryptionSubscriber"
  /\ cls = "Encryption"
  /\ sensitiveDataKey = NewInstance.sensitiveDataKey
  /\ sensitiveRootKey = NewInstance.sensitiveRootKey
  /\ sensitiveRootKeyVersion = NewInstance.sensitiveRootKeyVersion
  /\ sensitiveRootKeyValue = NewInstance.sensitiveRootKeyValue
  /\ produced = NoneProduced
  /\ last = NoCall
  /\ \E text \in GuardTexts :
       \E c \in {HookCase(Obj(<<<<Key_name, Str(text)>>>>),
                          <<EncryptedField(Key_name, Undefined)>>, <<>>, <<>>)} :
         entity = c.entity /\ meta = c.meta
  /\ journal = NoJournal
  /\ tasks = NoTasks
  /\ integration = NoIntegration

\* isAlreadyEncrypted(entity.name)
IsAlreadyEncryptedCall ==
  /\ last' = [op |-> "isAlreadyEncrypted", arg |-> Get(entity, Key_name).s,
              given |-> NoGiven,
              res |-> isAlreadyEncrypted(Get(entity, Key_name).s)]
  /\ UNCHANGED <<cls, sensitiveDataKey, sensitiveRootKey, sensitiveRootKeyVersion,
                 sensitiveRootKeyValue, produced, subscriber, entity, meta, journal, tasks, integration>>

NextGuard == KeyServiceCall \/ IsAlreadyEncryptedCall \/ BeforeInsertCall

SpecGuard == InitGuard /\ [][NextGuard]_vars

\* The shape of a ciphertext, read off the positions of the separators: three
\* separators, the first at position 5, none at an end and no two adjacent;
\* or one separator at position 5 after "0001" and before the end.
Carets(text) == {i \in 1..Len(text) : text[i] = Caret}

FourFieldShape(text) ==
  /\ Cardinality(Carets(text)) = 3
  /\ 5 \in Carets(text) /\ Carets(text) \cap (1..4) = {}
  /\ Len(text) \notin Carets(text)
  /\ \A i \in Carets(text) : i + 1 \notin Carets(text)

TwoFieldShape(text) ==
  /\ Carets(text) = {5}
  /\ SubSeq(text, 1, 4) = V0001
  /\ Len(text) > 5

CiphertextShape(text) == FourFieldShape(text) \/ TwoFieldShape(text)

\* C25: isAlreadyEncrypted(text) is true exactly when text has four
\* non-empty '^'-separated fields the first of which has four characters, or
\* two fields that are "0001" and a non-empty one; and beforeInsert leaves a
\* column of such a text as it is, while it replaces every other non-empty
\* text that it encrypts without an error.
C25_GuardShape ==
  /\ last.op = "isAlreadyEncrypted" => last.res = CiphertextShape(last.arg)
  /\ (last.op = "beforeInsert" /\ Get(journal.before, Key_name).t = "string") =>
       IF CiphertextShape(Get(journal.before, Key_name).s)
         THEN /\ entity = journal.before
              /\ last.res = Ok(Undefined)
              /\ journal.log = <<Step(Key_name, "skipped")>>
       ELSE /\ journal.log # <<Step(Key_name, "skipped")>>
            /\ last.res.ok => Get(entity, Key_name) # Get(journal.before, Key_name)

\* A plaintext "0001^x" went through beforeInsert of a keyed service and is
\* still "0001^x".
C25_Witness ==
  /\ last.op = "beforeInsert"
  /\ sensitiveDataKey # NewInstance.sensitiveDataKey
  /\ journal.passes = 1
  /\ entity = Obj(<<<<Key_name, Str(Join(<<V0001, <<120>>>>))>>>>)

\* ------------------------------------------------------------------------
\* The walk as the async function it is: processNestedFields and
\* processJsonPath await every call of processJsonPath, so a call runs up to
\* its first await and is resumed from the microtask queue afterwards
\* ------------------------------------------------------------------------

\* The greatest number of calls of processNestedFields in flight.
MaxTasks == 2

\* The value at the keys loc below doc, and doc with that value replaced.
RECURSIVE At(_, _)
At(doc, loc) == IF loc = <<>> THEN doc ELSE At(Get(doc, Head(loc)), Tail(loc))

RECURSIVE PutAt(_, _, _)
PutAt(doc, loc, value) ==
  IF loc = <<>> THEN value
  ELSE Put(doc, Head(loc), PutAt(Get(doc, Head(loc)), Tail(loc), value)).v

\* A call processJsonPath(obj, segments, currentPath) with obj at loc.
Frame(loc, segments, currentPath) ==
  [loc |-> loc, segments |-> segments, currentPath |-> currentPath]

\* The calls of processJsonPath that call processJsonPath no further, in the
\* order in which the walk makes them.  Every other call does nothing but
\* await the calls it makes, so the code between two awaits of a walk runs
\* exactly one of these calls.
RECURSIVE Calls(_, _, _, _)
RECURSIVE ItemCalls(_, _, _, _, _)
ItemCalls(array, loc, segments, path, i) ==
  IF i > Len(array.items) THEN <<>>
  ELSE Calls(array.items[i], Append(loc, Decimal(i - 1)), segments, Indexed(path, i - 1))
       \o ItemCalls(array, loc, segments, path, i + 1)

Calls(obj, loc, segments, currentPath) ==
  IF Not(obj) \/ Len(segments) = 0 THEN <<Frame(loc, segments, currentPath)>>
  ELSE LET segment == Head(segments)
           remainingSegments == Tail(segments)
           newPath == IF currentPath # <<>> THEN currentPath \o <<Dot>> \o segment.key
                      ELSE segment.key
       IN
    IF segment.isArray THEN
      IF segment.isRootArray THEN
        IF IsArray(obj) /\ obj.items # <<>>
          THEN ItemCalls(obj, loc, remainingSegments, <<>>, 1)
        ELSE <<Frame(loc, segments, currentPath)>>
      ELSE IF IsArray(Get(obj, segment.key)) /\ Get(obj, segment.key).items # <<>>
        THEN ItemCalls(Get(obj, segment.key), Append(loc, segment.key),
                       remainingSegments, newPath, 1)
      ELSE <<Frame(loc, segments, currentPath)>>
    ELSE IF Len(remainingSegments) > 0 /\ IsObjectNotNull(Get(obj, segment.key))
      THEN Calls(Get(obj, segment.key), Append(loc, segment.key), remainingSegments, newPath)
    ELSE <<Frame(loc, segments, currentPath)>>

\* The promise of processNestedFields(obj, paths, operation) and where the
\* call stands: at path i (from 1), after k of its calls of processJsonPath.
Task(operation, paths, seed) ==
  [operation |-> operation, paths |-> paths, seed |-> seed, i |-> 1, k |-> 0,
   n |-> 0, log |-> <<>>, state |-> "pending", res |-> Ok(Undefined)]

\* The call runs from where it stands to its next await: it leaves the loop
\* over the paths and fulfils the promise, or parsePath throws, or it makes
\* the next call of processJsonPath that calls no further.
Advance(svc, task, doc) ==
  IF task.i > Len(task.paths)
    THEN [task |-> [task EXCEPT !.state = "fulfilled"], doc |-> doc]
  ELSE The({
    IF ~segments.ok
      THEN [task |-> [task EXCEPT !.state = "rejected", !.res = segments], doc |-> doc]
    ELSE The({ The({
      [task |-> [task EXCEPT
                   !.state = IF r.res.ok THEN "pending" ELSE "rejected",
                   !.res = r.res, !.n = r.n, !.log = r.log,
                   !.k = IF task.k + 1 = Len(frames) THEN 0 ELSE task.k + 1,
                   !.i = IF task.k + 1 = Len(frames) THEN task.i + 1 ELSE task.i],
       doc |-> PutAt(doc, frames[task.k + 1].loc, r.obj)]
      : r \in {processJsonPath(svc, task.seed, task.operation,
                               At(doc, frames[task.k + 1].loc),
                               frames[task.k + 1].segments,
                               frames[task.k + 1].currentPath, task.log, task.n)} })
      : frames \in {Calls(doc, <<>>, segments.v, <<>>)} })
    : segments \in {parsePath(task.paths[task.i])} })

\* The documents of the walks in flight: a nested object, and a root array
\* of objects with arrays.
AsyncCases == {CasePersonalInfo, CaseContacts}

InitAsync ==
  /\ cls = "Encryption"
  /\ sensitiveDataKey = NewInstance.sensitiveDataKey
  /\ sensitiveRootKey = NewInstance.sensitiveRootKey
  /\ sensitiveRootKeyVersion = NewInstance.sensitiveRootKeyVersion
  /\ sensitiveRootKeyValue = NewInstance.sensitiveRootKeyValue
  /\ produced = NoneProduced
  /\ last = NoCall
  /\ subscriber = "EncryptionSubscriber"
  /\ \E c \in AsyncCases : entity = c.entity /\ meta = c.meta
  /\ journal = NoJournal
  /\ tasks = NoTasks
  /\ integration = NoIntegration

\* The keys are given before the first walk.
AsyncInitServiceCall == tasks = NoTasks /\ InitServiceCall

\* Where the random bytes of the encrypt calls of the t-th call of
\* processNestedFields start.
TaskSeed(t) == IF t = 1 THEN InsertSeed ELSE UpdateSeed + (t - 2)

\* subscriber.processNestedFields(entity[field], options.paths, operation),
\* not awaited: the call returns its promise at its first await.
StartWalk(operation) ==
  /\ Len(tasks) < MaxTasks
  /\ \E r \in {Advance(Service(cls, This),
                       Task(operation, meta.encryptedJsonFields[1].options.paths,
                            TaskSeed(Len(tasks) + 1)),
                       Get(entity, meta.encryptedJsonFields[1].field))} :
       /\ tasks' = Append(tasks, r.task)
       /\ entity' = Put(entity, meta.encryptedJsonFields[1].field, r.doc).v
       /\ last' = [op |-> "processNestedFields", arg |-> Len(tasks) + 1,
                   given |-> NoGiven, res |-> r.task.res]
       /\ journal' = [operation |-> operation, before |-> entity, log |-> r.task.log,
                      passes |-> journal.passes + 1]
  /\ UNCHANGED <<cls, sensitiveDataKey, sensitiveRootKey, sensitiveRootKeyVersion,
                 sensitiveRootKeyValue, produced, subscriber, meta, integration>>

StartEncryptWalkCall == StartWalk("encrypt")

StartDecryptWalkCall == StartWalk("decrypt")

\* The microtask queue resumes a call that stands at an await.
ResumeWalkCall ==
  \E t \in 1..Len(tasks) :
    /\ tasks[t].state = "pending"
    /\ \E r \in {Advance(Service(cls, This), tasks[t],
                         Get(entity, meta.encryptedJsonFields[1].field))} :
         /\ tasks' = [tasks EXCEPT ![t] = r.task]
         /\ entity' = Put(entity, meta.encryptedJsonFields[1].field, r.doc).v
         /\ last' = [op |-> "resume", arg |-> t, given |-> NoGiven, res |-> r.task.res]
    /\ UNCHANGED <<cls, sensitiveDataKey, sensitiveRootKey, sensitiveRootKeyVersion,
                   sensitiveRootKeyValue, produced, subscriber, meta, journal,
                   integration>>

NextAsync ==
  AsyncInitServiceCall \/ StartEncryptWalkCall \/ StartDecryptWalkCall \/ ResumeWalkCall

SpecAsync == InitAsync /\ [][NextAsync]_vars

\* The entity as the walk of the latest call leaves it when it runs from its
\* first to its last leaf with nothing in between.
WalkedWhole ==
  Put(journal.before, meta.encryptedJsonFields[1].field,
      processNestedFields(Service(cls, This), TaskSeed(Len(tasks)), journal.operation,
                          Get(journal.before, meta.encryptedJsonFields[1].field),
                          meta.encryptedJsonFields[1].options.paths).obj).v

\* C26: when a call of processNestedFields has returned to its caller, every
\* leaf that its paths address is transformed.
C26_WalkReturnsComplete ==
  last.op = "processNestedFields" => entity = WalkedWhole

\* A walk that was alone on the document from its call to the fulfilment of
\* its promise leaves the entity as the walk without awaits does.
AloneWalkSettlesComplete ==
  (Len(tasks) = 1 /\ tasks[1].state = "fulfilled") => entity = WalkedWhole

\* A second walk was called while the first stood at an await, as in the
\* test that calls the encrypt walk and the decrypt walk without awaiting.
WalksInterleaved ==
  /\ Len(tasks) = 2
  /\ tasks[1].state = "pending" /\ tasks[1].operation = "encrypt"
  /\ tasks[2].operation = "decrypt"
  /\ last.op = "processNestedFields"

\* ------------------------------------------------------------------------
\* What a walk leaves alone
\* ------------------------------------------------------------------------
\* The value with every string leaf at one of the paths addressed blanked:
\* the keys of the objects in their order, the arrays with their lengths and
\* the order of their elements, and every other value as it is.
RECURSIVE Masked(_, _, _)
Masked(value, at, addressed) ==
  IF value.t = "object" THEN
    Obj([i \in 1..Len(value.entries) |->
           <<value.entries[i][1],
             Masked(value.entries[i][2], Under(at, value.entries[i][1]), addressed)>>])
  ELSE IF value.t = "array" THEN
    Arr([i \in 1..Len(value.items) |-> Masked(value.items[i], Indexed(at, i - 1), addressed)])
  ELSE IF value.t = "string" /\ at \in addressed THEN Str(<<>>)
  ELSE value

\* C27: a walk in either mode, whether it returns or throws, changes only
\* the values of the string leaves that its paths address: the keys that are
\* not addressed, the values at addressed positions that are no strings, the
\* keys of every object and the length and order of every array are after the
\* walk what they were before it, and an addressed string leaf holds a string.
C27_WalkFrame ==
  last.op = "processNestedFields" =>
    Masked(DocAfter, <<>>, AddressedLeaves) = Masked(DocBefore, <<>>, AddressedLeaves)

\* The encrypt walk over { name: 'a', idCard: 'b', contactInfo: { email: ' ',
\* phone: 5 } } with the paths name, contactInfo.email and contactInfo.phone:
\* name was replaced, the number at contactInfo.phone and the string at
\* idCard, which no path addresses, were not.
C27_Witness ==
  /\ WalkReturned /\ journal.operation = "encrypt" /\ InitDone
  /\ meta = CasePersonalInfo.meta /\ journal.before = CasePersonalInfo.entity
  /\ LeafAt(DocAfter, Key_name) # LeafA
  /\ LeafAt(DocAfter, Dotted(Key_contactInfo, Key_email)) # LeafSpace
  /\ LeafAt(DocAfter, Dotted(Key_contactInfo, Key_phone)) = Num(5)
  /\ LeafAt(DocAfter, Key_idCard) = LeafB

\* ------------------------------------------------------------------------
\* What a failed init leaves behind
\* ------------------------------------------------------------------------
\* C28: a call of init that throws leaves the master key, the registered
\* versions with their keys and the current version as they were before the
\* call.
C28_FailedInitChangesNothing ==
  [][(last'.op = "init" /\ ~last'.res.ok) =>
       UNCHANGED <<sensitiveDataKey, sensitiveRootKey, sensitiveRootKeyVersion,
                   sensitiveRootKeyValue>>]_vars

\* After init with { '0001': k1 } the call init(cbcKey, { '0003': k3, '001':
\* k1 }) threw at its second entry: '0003' is registered, and the current
\* version is still '0001'.
FailedInitRegistered ==
  /\ last.op = "init" /\ ~last.res.ok
  /\ DOMAIN sensitiveRootKey = {V0001, V0003}
  /\ sensitiveRootKeyVersion = Str(V0001)

\* ------------------------------------------------------------------------
\* TypeORMIntegration: initialize and close are async functions; a call runs
\* up to its next await, and the calls in flight are resumed in any order
\* ------------------------------------------------------------------------

\* The greatest number of calls of initialize and close in a scenario.
MaxCalls == 3

\* new TypeORMIntegration(options): isInitialized is false, no ConfigManager
\* and no DataSource is assigned (0), createDataSource is the method that
\* throws.  managers and sources are the ConfigManager and DataSource objects
\* constructed so far, each with the number of close calls made before it.
NewIntegration ==
  [isInitialized |-> FALSE, configManager |-> 0, sensitiveData |-> 0, dataSource |-> 0,
   hasFactory |-> FALSE, managers |-> <<>>, sources |-> <<>>, closes |-> 0]

InitIntegration ==
  /\ cls = "SensitiveData"
  /\ sensitiveDataKey = NewInstance.sensitiveDataKey
  /\ sensitiveRootKey = NewInstance.sensitiveRootKey
  /\ sensitiveRootKeyVersion = NewInstance.sensitiveRootKeyVersion
  /\ sensitiveRootKeyValue = NewInstance.sensitiveRootKeyValue
  /\ produced = NoneProduced
  /\ last = NoCall
  /\ subscriber = NoSubscriber
  /\ entity = Undefined
  /\ meta = NoMeta
  /\ journal = NoJournal
  /\ tasks = NoTasks
  /\ integration = NewIntegration

\* A step of the integration: its fields, the calls in flight and the latest
\* call change, nothing else does.
IntegrationStep(op, t, self, calls) ==
  /\ integration' = self
  /\ tasks' = calls
  /\ last' = [op |-> op, arg |-> t, given |-> NoGiven,
              res |-> IF calls[t].pc = "rejected" THEN Throw(calls[t].err)
                      ELSE Ok(Undefined)]
  /\ UNCHANGED <<cls, sensitiveDataKey, sensitiveRootKey, sensitiveRootKeyVersion,
                 sensitiveRootKeyValue, produced, subscriber, entity, meta, journal>>

Call(fn, pc, manager, source, err) ==
  [fn |-> fn, pc |-> pc, manager |-> manager, source |-> source, err |-> err]

\* setDataSourceFactory(factory)
SetDataSourceFactoryCall ==
  /\ ~integration.hasFactory
  /\ integration' = [integration EXCEPT !.hasFactory = TRUE]
  /\ UNCHANGED <<cls, sensitiveDataKey, sensitiveRootKey, sensitiveRootKeyVersion,
                 sensitiveRootKeyValue, produced, last, subscriber, entity, meta,
                 journal, tasks>>

\* initialize() up to its first await: it returns at once if isInitialized
\* is set; otherwise it assigns a new ConfigManager, calls its initialize(),
\* which requests the configuration, and awaits it.
InitializeCall ==
  /\ Len(tasks) < MaxCalls
  /\ IF integration.isInitialized
       THEN IntegrationStep("initialize", Len(tasks) + 1, integration,
                            Append(tasks, Call("initialize", "fulfilled", 0, 0, "")))
     ELSE IntegrationStep("initialize", Len(tasks) + 1,
            [integration EXCEPT
               !.managers = Append(@, [closes |-> integration.closes,
                                       isInitialized |-> FALSE]),
               !.configManager = Len(integration.managers) + 1],
            Append(tasks, Call("initialize", "config",
                               Len(integration.managers) + 1, 0, "")))

\* ConfigManager.initialize() of the call t settles: the configuration was
\* read and isInitialized of the manager is set, or it was not (the promise
\* is fulfilled with false, which initialize() of the integration ignores).
ConfigSettles ==
  \E t \in 1..Len(tasks) : \E loaded \in BOOLEAN :
    /\ tasks[t].pc = "config"
    /\ IntegrationStep("ConfigManager.initialize", t,
         [integration EXCEPT !.managers[tasks[t].manager].isInitialized = loaded],
         [tasks EXCEPT ![t].pc = "handler"])

\* initialize() from its first await to its second: createSensitiveDataHandler
\* of this.configManager throws unless that manager is initialized;
\* createDataSource throws unless a factory was set; the DataSource is
\* assigned and its initialize() is called and awaited.
InitializeGoesOn ==
  \E t \in 1..Len(tasks) :
    /\ tasks[t].pc = "handler"
    /\ IF ~integration.managers[integration.configManager].isInitialized
         THEN IntegrationStep("initialize", t, integration,
                [tasks EXCEPT ![t].pc = "rejected", ![t].err = "config manager not initialized"])
       ELSE IF ~integration.hasFactory
         THEN IntegrationStep("initialize", t,
                [integration EXCEPT !.sensitiveData = integration.configManager],
                [tasks EXCEPT ![t].pc = "rejected", ![t].err = "no DataSource factory"])
       ELSE IntegrationStep("initialize", t,
              [integration EXCEPT
                 !.sensitiveData = integration.configManager,
                 !.sources = Append(@, [closes |-> integration.closes,
                                        isInitialized |-> FALSE,
                                        initialized |-> 0]),
                 !.dataSource = Len(integration.sources) + 1],
              [tasks EXCEPT ![t].pc = "source", ![t].source = Len(integration.sources) + 1])

\* dataSource.initialize() of the call t settles: the connection is open and
\* initialize() sets isInitialized, or it failed and initialize() throws.
SourceSettles ==
  \E t \in 1..Len(tasks) : \E connected \in BOOLEAN :
    /\ tasks[t].pc = "source"
    /\ IF connected
         THEN IntegrationStep("initialize", t,
                [integration EXCEPT
                   !.sources[tasks[t].source].isInitialized = TRUE,
                   !.sources[tasks[t].source].initialized = @ + 1,
                   !.isInitialized = TRUE],
                [tasks EXCEPT ![t].pc = "fulfilled"])
       ELSE IntegrationStep("initialize", t, integration,
              [tasks EXCEPT ![t].pc = "rejected", ![t].err = "DataSource.initialize failed"])

\* close() up to its await: an initialized DataSource is destroyed and the
\* call awaits that; otherwise the call clears isInitialized and returns.
CloseCall ==
  /\ Len(tasks) < MaxCalls
  /\ IF /\ integration.dataSource # 0
        /\ integration.sources[integration.dataSource].isInitialized
       THEN IntegrationStep("close", Len(tasks) + 1,
              [integration EXCEPT !.closes = @ + 1],
              Append(tasks, Call("close", "destroy", 0, integration.dataSource, "")))
     ELSE IntegrationStep("close", Len(tasks) + 1,
            [integration EXCEPT !.closes = @ + 1, !.isInitialized = FALSE],
            Append(tasks, Call("close", "fulfilled", 0, 0, "")))

\* dataSource.destroy() of the call t settles and close() clears
\* isInitialized.
DestroySettles ==
  \E t \in 1..Len(tasks) :
    /\ tasks[t].pc = "destroy"
    /\ IntegrationStep("close", t,
         [integration EXCEPT !.sources[tasks[t].source].isInitialized = FALSE,
                             !.isInitialized = FALSE],
         [tasks EXCEPT ![t].pc = "fulfilled"])

NextIntegration ==
  \/ SetDataSourceFactoryCall \/ InitializeCall \/ ConfigSettles \/ InitializeGoesOn
  \/ SourceSettles \/ CloseCall \/ DestroySettles

SpecIntegration == InitIntegration /\ [][NextIntegration]_vars

\* The ConfigManagers that loaded the configuration, and the DataSources that
\* were created and initialised, since the latest call of close().
LoadedSinceClose ==
  {i \in 1..Len(integration.managers) :
     /\ integration.managers[i].closes = integration.closes
     /\ integration.managers[i].isInitialized}

InitialisedSinceClose ==
  {i \in 1..Len(integration.sources) :
     /\ integration.sources[i].closes = integration.closes
     /\ integration.sources[i].initialized > 0}

\* C29: however many calls of initialize() are made, overlapping or not, the
\* configuration is loaded at most once and at most one DataSource is created
\* and initialised until close() is called.
C29_InitializeOnce ==
  Cardinality(LoadedSinceClose) <= 1 /\ Cardinality(InitialisedSinceClose) <= 1

\* Two calls of initialize() that overlapped are both fulfilled: two
\* ConfigManagers loaded the configuration and two DataSources are open, of
\* which the integration holds the second.
InitializedTwice ==
  /\ Len(tasks) = 2
  /\ \A t \in 1..2 : tasks[t].fn = "initialize" /\ tasks[t].pc = "fulfilled"
  /\ integration.closes = 0
  /\ Cardinality(LoadedSinceClose) = 2 /\ Cardinality(InitialisedSinceClose) = 2

\* ------------------------------------------------------------------------
\* Paths that end in an array segment
\* ------------------------------------------------------------------------
Key_tags == <<116, 97, 103, 115>>

\* 'tags[]' on an array of a plaintext, a ciphertext and an empty string,
\* before a path that addresses a leaf.
CaseTags ==
  The({ JsonCase(Key_personalInfo, <<Each(Key_tags), Key_name>>,
                 Obj(<<<<Key_tags, Arr(<<LeafA, stored, LeafEmpty>>)>>, <<Key_name, LeafA>>>>))
        : stored \in {StoredCiphertext("Encryption")} })

\* '[]' on a root array of a plaintext and a ciphertext.
CaseRootStrings ==
  The({ JsonCase(Key_addresses, <<Each(<<>>)>>, Arr(<<LeafA, stored>>))
        : stored \in {StoredCiphertext("Encryption")} })

\* '[].tags[]' on a root array of objects whose tags are an array of strings,
\* a string, and missing.
CaseNestedTags ==
  JsonCase(Key_addresses, <<Dotted(Each(<<>>), Each(Key_tags)), Dotted(Each(<<>>), Key_city)>>,
    Arr(<<Obj(<<<<Key_tags, Arr(<<LeafB, LeafHan>>)>>, <<Key_city, LeafA>>>>),
          Obj(<<<<Key_tags, LeafA>>, <<Key_city, LeafB>>>>),
          Obj(<<<<Key_city, LeafHan>>>>)>>))

TrailingCases == {CaseTags, CaseRootStrings, CaseNestedTags}

InitTrailing == InitWalkOver(TrailingCases)

SpecTrailing == InitTrailing /\ [][NextWalk]_vars

\* The paths of the string elements of the arrays that the segments lead to.
RECURSIVE Elements(_, _, _)
Elements(value, segments, at) ==
  IF Len(segments) = 0 THEN (IF value.t = "string" THEN {at} ELSE {})
  ELSE IF value.t \notin {"object", "array"} THEN {}
  ELSE LET segment == Head(segments)
           inner == IF segment.isRootArray THEN value ELSE Get(value, segment.key)
           innerAt == IF segment.isRootArray THEN <<>> ELSE Under(at, segment.key)
       IN
    IF segment.isArray THEN
      IF inner.t = "array"
        THEN UNION {Elements(inner.items[i], Tail(segments), Indexed(innerAt, i - 1))
                    : i \in 1..Len(inner.items)}
      ELSE {}
    ELSE Elements(inner, Tail(segments), innerAt)

\* The paths of the walk whose last segment is an array segment, and the
\* string elements that they address.
TrailingPaths ==
  {i \in 1..Len(WalkedPaths) :
     /\ parsePath(WalkedPaths[i]).ok
     /\ parsePath(WalkedPaths[i]).v[Len(parsePath(WalkedPaths[i]).v)].isArray}

TrailingElements ==
  UNION {Elements(DocBefore, parsePath(WalkedPaths[i]).v, <<>>) : i \in TrailingPaths}

\* C30: a walk, in either mode, neither transforms nor visits a string
\* element of an array that a path ending in an array segment addresses, and
\* such a path raises nothing: a walk of such paths only always returns.
C30_TrailingArrayUntouched ==
  last.op = "processNestedFields" =>
    /\ \A at \in TrailingElements :
         /\ LeafAt(DocAfter, at) = LeafAt(DocBefore, at)
         /\ \A i \in 1..Len(journal.log) : journal.log[i].path # at
    /\ TrailingPaths = 1..Len(WalkedPaths) => last.res.ok /\ entity = journal.before

\* The encrypt walk with the paths 'tags[]' and 'name' on { tags: ['a',
\* <ciphertext>, ''], name: 'a' }: name was encrypted, the elements of tags
\* are what they were.
C30_Witness ==
  /\ WalkReturned /\ journal.operation = "encrypt" /\ InitDone
  /\ meta = CaseTags.meta /\ journal.before = CaseTags.entity
  /\ Cardinality(TrailingElements) = 3
  /\ Get(DocAfter, Key_tags) = Get(DocBefore, Key_tags)
  /\ journal.log = <<Step(Key_name, "encrypted")>>

====
